---- MODULE Spec2Model ----
(***************************************************************************)
(* The dashboard request pipeline of shopify-business-sidekick: the token  *)
(* store and the two per-shop caches (lib/cache), the order aggregation    *)
(* with its cache (lib/shopify), the /dashboard and /dashboard/refresh     *)
(* handlers (routes/dashboard), /disconnect (routes/settings) and the      *)
(* OAuth callback (routes/auth).                                           *)
(*                                                                         *)
(* Node runs one handler at a time and switches handlers only at an await, *)
(* so every action below is one synchronous run of a handler: from the     *)
(* arrival of a request or of an upstream response to the next await.      *)
(* Time is Date.now() in milliseconds; the clock never goes back.          *)
(*                                                                         *)
(* The pure functions of the pipeline (the parsing and the severities of   *)
(* generateTileInsights, the prompt builder, the order aggregation) are    *)
(* operators; the variable call holds one application of one of them, with *)
(* its arguments drawn from bounded sets, in specifications of their own.  *)
(***************************************************************************)
EXTENDS Integers, Sequences, FiniteSets, TLC

VARIABLES shopTokens, insightsCache, orderDataCache, now, config, req, session, call

vars == <<shopTokens, insightsCache, orderDataCache, now, config, req, session, call>>

(* ---- bounds of the model ---- *)
\* the ad data examined: spend 0..MaxSpend, revenue 0..MaxRevenue
MaxSpend == 2
MaxRevenue == 6
\* the longest health-check body examined, in words
MaxWords == 3
\* the most sections a model text examined by the parser has
MaxSections == 5
\* the clock takes the values day * INSIGHTS_TTL + ms, day <= MaxDays, ms <= MaxMs
MaxDays == 2
MaxMs == 1
\* the longest pagination the storefront answers with
MaxPages == 2
\* the most products a data summary examined lists
MaxProducts == 2
\* the most context notes put before a prompt
MaxNotes == 1
\* the most orders on a page of the storefront
MaxOrders == 2
\* the average order values examined, in whole pounds
MaxAov == 5
\* the most line items the paid orders examined hold together
MaxItems == 4

Shops == {"s1"}
\* the slots of the handlers that await: those in flight at the same time
Reqs == {1, 2}
\* slot 0 shows the last handler that ran without an await
Slots == {0} \cup Reqs

(* ---- lib/cache ---- *)
INSIGHTS_TTL == 24 * 60 * 60 * 1000
ORDER_DATA_TTL == 24 * 60 * 60 * 1000

NoToken == [accessToken |-> "none"]
NoOrderData == [cachedAt |-> -1]
NullTiles == [isNull |-> TRUE, healthCheck |-> "", biggestIssue |-> "", quickWin |-> "",
              opportunity |-> "", adPerformance |-> ""]
NoInsights == [generatedAt |-> -1, tiles |-> NullTiles,
               shopifyStats |-> NoOrderData, gaData |-> "null", metaAdsData |-> "null"]

\* a variant of the lookup that finds a credential for every shop
getShopTokenAny(s) == [accessToken |-> "token"]

getShopToken(s) == shopTokens[s]

setShopToken(s, accessToken) ==
  shopTokens' = [shopTokens EXCEPT ![s] = [accessToken |-> accessToken]]

\* a variant of deleteShopToken that leaves the order data (as the
\* deleteShopToken of the legacy server.js does)
deleteShopTokenAndInsights(ic, oc, s) ==
  /\ shopTokens' = [shopTokens EXCEPT ![s] = NoToken]
  /\ insightsCache' = [ic EXCEPT ![s] = NoInsights]
  /\ orderDataCache' = oc

\* deleteShopToken applied to the caches ic and oc (the caches as the handler
\* has left them so far in this synchronous run)
deleteShopToken(ic, oc, s) ==
  /\ shopTokens' = [shopTokens EXCEPT ![s] = NoToken]
  /\ insightsCache' = [ic EXCEPT ![s] = NoInsights]
  /\ orderDataCache' = [oc EXCEPT ![s] = NoOrderData]

\* a variant of getCachedInsights without the expiry check
getCachedInsightsNoExpiry(ic, s, t) == ic[s]

getCachedInsights(ic, s, t) ==
  LET cached == ic[s]
  IN IF cached = NoInsights THEN NoInsights
     ELSE IF t - cached.generatedAt > INSIGHTS_TTL THEN NoInsights
     ELSE cached

\* a variant of setCachedInsights that keeps the entry already stored
setCachedInsightsIfAbsent(ic, s, data, t) ==
  IF ic[s] # NoInsights THEN ic ELSE [ic EXCEPT ![s] = [data EXCEPT !.generatedAt = t]]

\* a variant of setCachedInsights that stores the entry without stamping it
\* with the current time
setCachedInsightsUnstamped(ic, s, data, t) ==
  [ic EXCEPT ![s] = data]

setCachedInsights(ic, s, data, t) ==
  [ic EXCEPT ![s] = [data EXCEPT !.generatedAt = t]]

clearInsightsCache(ic, s) == [ic EXCEPT ![s] = NoInsights]

getCachedOrderData(oc, s, t) ==
  LET cached == oc[s]
  IN IF cached = NoOrderData THEN NoOrderData
     ELSE IF t - cached.cachedAt > ORDER_DATA_TTL THEN NoOrderData
     ELSE cached

\* a variant of the lookup that leaves an expired entry in the cache
orderDataCacheKept(oc, s, t) == oc

\* the order-data cache after getCachedOrderData: an expired entry is deleted
orderDataCacheAfterGet(oc, s, t) ==
  LET cached == oc[s]
  IN IF cached # NoOrderData /\ t - cached.cachedAt > ORDER_DATA_TTL
     THEN [oc EXCEPT ![s] = NoOrderData]
     ELSE oc

setCachedOrderData(oc, s, data, t) ==
  [oc EXCEPT ![s] = [data EXCEPT !.cachedAt = t]]

clearOrderDataCache(oc, s) == [oc EXCEPT ![s] = NoOrderData]

(* ---- upstream answers ---- *)
\* a failed storefront call: its HTTP status and whether the first 200
\* characters of the error body happen to contain the digits 401
StorefrontErrors ==
  { [status |-> 401, bodyHas401 |-> FALSE],
    [status |-> 500, bodyHas401 |-> FALSE],
    [status |-> 500, bodyHas401 |-> TRUE] }

\* an error thrown by the model client: whether its message contains 401
\* (the client reports an HTTP failure as "<status> <body>")
ModelErrors ==
  { [status |-> 0, bodyHas401 |-> FALSE],
    [status |-> 0, bodyHas401 |-> TRUE] }

NoError == [status |-> 0, bodyHas401 |-> FALSE]

\* err.message.includes("401") for the message "Shopify API error <status>: <body>"
MessageIncludes401(e) == e.status = 401 \/ e.bodyHas401

\* the model's text, by the sections it carries
ModelTexts == {"five_sections", "health_only", "no_sections"}

\* the tiles generateTileInsights parses out of the model's text
ParseTiles(text) ==
  [isNull |-> FALSE,
   healthCheck |-> IF text \in {"five_sections", "health_only"} THEN "body" ELSE "",
   biggestIssue |-> IF text = "five_sections" THEN "body" ELSE "",
   quickWin |-> IF text = "five_sections" THEN "body" ELSE "",
   opportunity |-> IF text = "five_sections" THEN "body" ELSE "",
   adPerformance |-> IF text = "five_sections" THEN "body" ELSE ""]

\* what fetchGoogleAnalyticsData / fetchMetaAdsData can do when called
SourceOutcomes(configured) == IF configured THEN {"data", "throws"} ELSE {"null"}

\* a variant without the catch: the outcome is passed on as it is
PassOn(outcome) == outcome

\* fetchX().catch(err => null)
CatchToNull(outcome) == IF outcome = "throws" THEN "null" ELSE outcome

(* ---- views/dashboard ---- *)
hasTiles(tiles) ==
  /\ ~tiles.isNull
  /\ \/ tiles.healthCheck # ""
     \/ tiles.biggestIssue # ""
     \/ tiles.quickWin # ""
     \/ tiles.opportunity # ""
     \/ tiles.adPerformance # ""

buildContentHtml(insightsData) ==
  IF hasTiles(insightsData.tiles) THEN "tiles" ELSE "insights_error_try_again"

(* ---- one request ---- *)
NoCalls == [shop |-> 0, count |-> 0, pages |-> 0, ga |-> 0, meta |-> 0, model |-> 0]

\* what the stores hold for shop s: a token, a live or expired insights
\* entry, an order-data entry
NothingStored == [token |-> FALSE, insights |-> FALSE, orders |-> FALSE]

Stored(s) == [token |-> shopTokens[s] # NoToken, insights |-> insightsCache[s] # NoInsights,
              orders |-> orderDataCache[s] # NoOrderData]

OrdersStored(s) == [NothingStored EXCEPT !.orders = orderDataCache[s] # NoOrderData]

\* a handler in flight: where it stands (pc), the calls it has running
\* (shopSt, ordSt, page), what it holds (ord, gaData, metaAdsData,
\* insightsData) and what it has done so far (the other fields)
IdleReq ==
  [kind |-> "none", shop |-> "s1", force |-> FALSE, pc |-> "idle",
   shopSt |-> "none", ordSt |-> "none", page |-> 0, ord |-> NoOrderData,
   gaOut |-> "null", metaOut |-> "null", gaData |-> "null", metaAdsData |-> "null",
   insightsData |-> NoInsights, look |-> "none", prior |-> "none", stored |-> NoInsights,
   tiles |-> NullTiles, overwrote |-> FALSE, had |-> NothingStored,
   out |-> "none", html |-> "none", skeleton |-> FALSE, err |-> NoError, errFrom |-> "none",
   saw401 |-> FALSE, elapsed |-> FALSE, calls |-> NoCalls, nonce |-> "none"]

\* the calls a handler has left running after it answered (Promise.all
\* rejects on the first failure and does not stop the other calls)
CallsRunning(rq) == rq.shopSt = "pending" \/ rq.ordSt \in {"count", "page"}

\* the handler has answered: it is over, or only its left-over calls run on
Answered(rq) == rq.pc \in {"done", "bg"}

Settle(rq) == [rq EXCEPT !.pc = IF CallsRunning(rq) THEN "bg" ELSE "done"]

\* what is left of an answered handler: nothing once its calls are over,
\* else the calls still running and the answer it gave
LeftOver(rq) ==
  IF rq.pc = "done" THEN IdleReq
  ELSE IF rq.pc = "bg"
       THEN [IdleReq EXCEPT !.kind = rq.kind, !.shop = rq.shop, !.pc = "bg",
                            !.shopSt = rq.shopSt, !.ordSt = rq.ordSt, !.page = rq.page,
                            !.out = rq.out, !.saw401 = rq.saw401]
       ELSE rq

Live == [r \in Slots |-> LeftOver(req[r])]

\* a new request is handled in the first free slot
Free(r) ==
  /\ Live[r].pc = "idle"
  /\ \A q \in Reqs : q < r => Live[q].pc # "idle"

\* Promise.all([shopifyFetch(shop), getShopifyOrderData(), GA, Meta]) up to the
\* first await of each: the shop call is issued, the order cache is looked up
\* and on a miss the count call is issued, the optional sources are called
StartFetches(rq, oc, s) ==
  LET cached == getCachedOrderData(oc, s, now)
      a == [rq EXCEPT !.pc = "gen", !.shopSt = "pending", !.calls.shop = 1,
                      !.calls.ga = IF config.GA THEN 1 ELSE 0,
                      !.calls.meta = IF config.META THEN 1 ELSE 0]
  IN IF cached # NoOrderData
     THEN [a EXCEPT !.ordSt = "cached", !.ord = cached]
     ELSE [a EXCEPT !.ordSt = "count", !.calls.count = 1]

\* the caches after the forced-refresh clears of GET /dashboard
ForceClearInsights(ic, s, force) == IF force THEN clearInsightsCache(ic, s) ELSE ic
\* a variant that never clears the order data
KeepOrderData(oc, s, force) == oc

\* a variant that clears the order data on every GET /dashboard
ClearOrderDataAlways(oc, s, force) == clearOrderDataCache(oc, s)

ForceClearOrderData(oc, s, force) == IF force THEN clearOrderDataCache(oc, s) ELSE oc

\* whether GET /dashboard looks the insights cache up
LooksUp(force) == config.ANTHROPIC_API_KEY /\ ~force

\* the live entry a forced refresh finds, by its generatedAt: none, written
\* in the millisecond t, or written earlier
PriorOf(cached, t) ==
  IF cached = NoInsights THEN "none"
  ELSE IF cached.generatedAt = t THEN "this_ms" ELSE "earlier"

\* GET /dashboard up to its first await
DashboardStart(r, s, force) ==
  /\ Free(r)
  /\ LET rq == [IdleReq EXCEPT !.kind = "dashboard", !.shop = s, !.force = force,
                  !.had = IF force THEN OrdersStored(s) ELSE NothingStored,
                  !.prior = IF force THEN PriorOf(getCachedInsights(insightsCache, s, now), now)
                            ELSE "none"]
     IN IF getShopToken(s) = NoToken
        THEN /\ req' = [Live EXCEPT ![r] = [rq EXCEPT !.pc = "done", !.out = "redirect_install"]]
             /\ UNCHANGED <<shopTokens, insightsCache, orderDataCache>>
        ELSE LET ic == ForceClearInsights(insightsCache, s, force)
                 oc == ForceClearOrderData(orderDataCache, s, force)
                 insightsData == IF LooksUp(force) THEN getCachedInsights(ic, s, now)
                                 ELSE NoInsights
                 rq1 == [rq EXCEPT !.insightsData = insightsData,
                                   !.look = IF ~LooksUp(force) THEN "skipped"
                                            ELSE IF insightsData # NoInsights THEN "hit"
                                            ELSE "miss"]
             IN /\ shopTokens' = shopTokens
                /\ insightsCache' = ic
                /\ IF insightsData # NoInsights \/ ~config.ANTHROPIC_API_KEY
                   THEN /\ req' = [Live EXCEPT ![r] = [rq1 EXCEPT !.pc = "hit",
                                                         !.shopSt = "pending", !.calls.shop = 1]]
                        /\ orderDataCache' = oc
                   ELSE /\ req' = [Live EXCEPT ![r] =
                                     StartFetches([rq1 EXCEPT !.skeleton = TRUE], oc, s)]
                        /\ orderDataCache' = orderDataCacheAfterGet(oc, s, now)
  /\ UNCHANGED <<now, config, session, call>>

\* GET /dashboard/refresh up to its first await
RefreshStart(r, s) ==
  /\ Free(r)
  /\ LET rq == [IdleReq EXCEPT !.kind = "refresh", !.shop = s, !.force = TRUE,
                               !.had = OrdersStored(s)]
     IN IF getShopToken(s) = NoToken
        THEN /\ req' = [Live EXCEPT ![r] = [rq EXCEPT !.pc = "done",
                                                     !.out = "json_401_not_authenticated"]]
             /\ UNCHANGED <<shopTokens, insightsCache, orderDataCache>>
        ELSE LET ic == clearInsightsCache(insightsCache, s)
                 oc == clearOrderDataCache(orderDataCache, s)
             IN /\ shopTokens' = shopTokens
                /\ insightsCache' = ic
                /\ req' = [Live EXCEPT ![r] = StartFetches([rq EXCEPT !.look = "skipped"], oc, s)]
                /\ orderDataCache' = orderDataCacheAfterGet(oc, s, now)
  /\ UNCHANGED <<now, config, session, call>>

\* a variant in which the errors of the generation block reach the outer
\* catch of GET /dashboard
CaughtOutOuter(rq, e) ==
  IF rq.kind = "refresh"
  THEN IF MessageIncludes401(e) THEN "json_401_token_expired" ELSE "json_500"
  ELSE IF MessageIncludes401(e) THEN "redirect_token_expired" ELSE "error_500"

\* the answer of a catch block: a message with 401 sends the caller to
\* re-authentication, any other message is a failure notice
CaughtOut(rq, e) ==
  IF rq.kind = "refresh"
  THEN IF MessageIncludes401(e) THEN "json_401_token_expired" ELSE "json_500"
  ELSE IF rq.pc = "hit"
       THEN IF MessageIncludes401(e) THEN "redirect_token_expired" ELSE "error_500"
       ELSE IF MessageIncludes401(e) THEN "stream_token_expired" ELSE "stream_try_again"

\* the catch blocks of both handlers
Catch(r, rq, e, from) ==
  /\ req' = [Live EXCEPT ![r] = Settle([rq EXCEPT !.err = e, !.errFrom = from,
                                                  !.out = CaughtOut(rq, e)])]
  /\ IF MessageIncludes401(e)
     THEN deleteShopToken(insightsCache, orderDataCache, rq.shop)
     ELSE UNCHANGED <<shopTokens, insightsCache, orderDataCache>>

\* generateTileInsights returned tiles: store them, read them back, render
StoreAndRender(r, rq, tiles) ==
  LET newInsights == [generatedAt |-> -1, tiles |-> tiles, shopifyStats |-> rq.ord,
                      gaData |-> rq.gaData, metaAdsData |-> rq.metaAdsData]
      ic == setCachedInsights(insightsCache, rq.shop, newInsights, now)
      cached == getCachedInsights(ic, rq.shop, now)
  IN /\ insightsCache' = ic
     /\ req' = [Live EXCEPT ![r] = [rq EXCEPT !.pc = "done", !.stored = ic[rq.shop],
                                             !.tiles = tiles,
                                             !.overwrote = insightsCache[rq.shop] # NoInsights,
                                             !.html = buildContentHtml(cached),
                                             !.out = IF rq.kind = "refresh" THEN "json_html"
                                                     ELSE "stream_content"]]
     /\ UNCHANGED <<shopTokens, orderDataCache>>

\* shopifyFetch(shop, accessToken, "shop") answers 200
ShopOk(r) ==
  /\ Live[r].shopSt = "pending"
  /\ LET rq == [Live[r] EXCEPT !.shopSt = "ok"]
     IN IF rq.pc = "hit"
        THEN req' = [Live EXCEPT ![r] = [rq EXCEPT !.pc = "done",
                       !.out = IF rq.insightsData # NoInsights THEN "page_cached" ELSE "page_setup",
                       !.html = IF rq.insightsData # NoInsights
                                THEN buildContentHtml(rq.insightsData) ELSE "setup_card"]]
        ELSE IF rq.pc = "bg"
             THEN req' = [Live EXCEPT ![r] = Settle(rq)]
             ELSE req' = [Live EXCEPT ![r] = rq]
  /\ UNCHANGED <<shopTokens, insightsCache, orderDataCache, now, config, session, call>>

\* shopifyFetch(shop, accessToken, "shop") answers with an error status
ShopFail(r, e) ==
  /\ Live[r].shopSt = "pending"
  /\ LET rq == [Live[r] EXCEPT !.shopSt = "failed", !.saw401 = @ \/ e.status = 401]
     IN IF rq.pc \in {"hit", "gen"}
        THEN Catch(r, rq, e, "shop")
        ELSE /\ req' = [Live EXCEPT ![r] = Settle(rq)]
             /\ UNCHANGED <<shopTokens, insightsCache, orderDataCache>>
  /\ UNCHANGED <<now, config, session, call>>

\* getShopifyOrderData: the orders/count call answers 200, the first page is asked for
OrderCountOk(r) ==
  /\ Live[r].ordSt = "count"
  /\ req' = [Live EXCEPT ![r] = [@ EXCEPT !.ordSt = "page", !.page = 1, !.calls.pages = 1]]
  /\ UNCHANGED <<shopTokens, insightsCache, orderDataCache, now, config, session, call>>

\* fetchAllPaidOrders: a page answers 200 with a rel="next" link
OrderPageNext(r) ==
  /\ Live[r].ordSt = "page"
  /\ Live[r].page < MaxPages
  /\ req' = [Live EXCEPT ![r] = [@ EXCEPT !.page = @ + 1, !.calls.pages = @ + 1]]
  /\ UNCHANGED <<shopTokens, insightsCache, orderDataCache, now, config, session, call>>

\* fetchAllPaidOrders: the last page answers 200; getShopifyOrderData
\* aggregates and caches the order data
OrderPageLast(r) ==
  /\ Live[r].ordSt = "page"
  /\ LET oc == setCachedOrderData(orderDataCache, Live[r].shop, NoOrderData, now)
         rq == [Live[r] EXCEPT !.ordSt = "done", !.ord = oc[Live[r].shop]]
     IN /\ orderDataCache' = oc
        /\ req' = [Live EXCEPT ![r] = IF rq.pc = "bg" THEN Settle(rq) ELSE rq]
  /\ UNCHANGED <<shopTokens, insightsCache, now, config, session, call>>

\* the orders/count call or a page answers with an error status
OrderFail(r, e) ==
  /\ Live[r].ordSt \in {"count", "page"}
  /\ LET rq == [Live[r] EXCEPT !.ordSt = "failed", !.saw401 = @ \/ e.status = 401]
     IN IF rq.pc = "gen"
        THEN Catch(r, rq, e, "orders")
        ELSE /\ req' = [Live EXCEPT ![r] = Settle(rq)]
             /\ UNCHANGED <<shopTokens, insightsCache, orderDataCache>>
  /\ UNCHANGED <<now, config, session, call>>

\* a variant of the gate that lets every call through
GateOpen == FALSE

\* the gate of generateTileInsights: without a model key it returns null at once
NoModelKey == ~config.ANTHROPIC_API_KEY

\* Promise.all resolves (the optional sources have answered or thrown), then
\* generateTileInsights runs up to the model call
Join(r, gaOut, metaOut) ==
  /\ Live[r].pc = "gen"
  /\ Live[r].shopSt = "ok"
  /\ Live[r].ordSt \in {"cached", "done"}
  /\ gaOut \in SourceOutcomes(config.GA)
  /\ metaOut \in SourceOutcomes(config.META)
  /\ LET rq == [Live[r] EXCEPT !.gaOut = gaOut, !.metaOut = metaOut,
                               !.gaData = CatchToNull(gaOut),
                               !.metaAdsData = CatchToNull(metaOut)]
     IN IF NoModelKey
        THEN StoreAndRender(r, rq, NullTiles)
        ELSE /\ req' = [Live EXCEPT ![r] = [rq EXCEPT !.pc = "model", !.calls.model = 1,
                                                      !.elapsed = FALSE]]
             /\ UNCHANGED <<shopTokens, insightsCache, orderDataCache>>
  /\ UNCHANGED <<now, config, session, call>>

\* client.messages.create answers; the round trip has taken at least 1 ms
ModelOk(r, text) ==
  /\ Live[r].pc = "model"
  /\ Live[r].elapsed
  /\ StoreAndRender(r, Live[r], ParseTiles(text))
  /\ UNCHANGED <<now, config, session, call>>

\* client.messages.create throws
ModelFail(r, e) ==
  /\ Live[r].pc = "model"
  /\ Live[r].elapsed
  /\ Catch(r, Live[r], e, "model")
  /\ UNCHANGED <<now, config, session, call>>

(* ---- routes/settings ---- *)
\* GET /settings: the settings page for a connected shop, else the way to install
Settings(s) ==
  /\ req' = [Live EXCEPT ![0] =
               [IdleReq EXCEPT !.kind = "settings", !.shop = s, !.pc = "done",
                               !.out = IF getShopToken(s) = NoToken THEN "redirect_install"
                                       ELSE "settings_page"]]
  /\ UNCHANGED <<shopTokens, insightsCache, orderDataCache, now, config, session, call>>

\* POST /disconnect
Disconnect(s) ==
  /\ deleteShopToken(insightsCache, orderDataCache, s)
  /\ session' = [nonce |-> "none"]
  /\ req' = [Live EXCEPT ![0] = [IdleReq EXCEPT !.kind = "disconnect", !.shop = s, !.pc = "done",
                                                !.had = Stored(s), !.out = "redirect_install"]]
  /\ UNCHANGED <<now, config, call>>

(* ---- routes/auth ---- *)
Nonces == {"n1"}
QueryStates == {"none", "n1", "n2"}

\* GET /auth
Auth(s, nonce) ==
  /\ session' = [nonce |-> nonce]
  /\ req' = Live
  /\ UNCHANGED <<shopTokens, insightsCache, orderDataCache, now, config, call>>

\* GET /auth/callback up to the token exchange
CallbackStart(r, s, state, hmac) ==
  /\ Free(r)
  /\ LET rq == [IdleReq EXCEPT !.kind = "callback", !.shop = s, !.nonce = session.nonce]
     IN req' = [Live EXCEPT ![r] =
                  IF state # session.nonce
                  THEN [rq EXCEPT !.pc = "done", !.out = "403_state_mismatch"]
                  ELSE IF hmac # "valid"
                       THEN [rq EXCEPT !.pc = "done", !.out = "403_hmac"]
                       ELSE [rq EXCEPT !.pc = "exchange"]]
  /\ UNCHANGED <<shopTokens, insightsCache, orderDataCache, now, config, session, call>>

\* the token exchange answers
TokenExchange(r, ok) ==
  /\ Live[r].pc = "exchange"
  /\ IF ok
     THEN /\ setShopToken(Live[r].shop, "token")
          /\ req' = [Live EXCEPT ![r] = [@ EXCEPT !.pc = "done", !.out = "redirect_admin"]]
     ELSE /\ shopTokens' = shopTokens
          /\ req' = [Live EXCEPT ![r] = [@ EXCEPT !.pc = "done", !.out = "500_auth_failed"]]
  /\ UNCHANGED <<insightsCache, orderDataCache, now, config, session, call>>

(* ---- the clock ---- *)
OnClock(t) == t \div INSIGHTS_TTL <= MaxDays /\ t % INSIGHTS_TTL <= MaxMs

\* d milliseconds pass
Tick(d) ==
  /\ OnClock(now + d)
  /\ now' = now + d
  /\ req' = [r \in Slots |-> [Live[r] EXCEPT
                  !.elapsed = @ \/ Live[r].pc = "model",
                  !.prior = IF @ = "this_ms" THEN "earlier" ELSE @]]
  /\ UNCHANGED <<shopTokens, insightsCache, orderDataCache, config, session, call>>

Configs == [ANTHROPIC_API_KEY : BOOLEAN, GA : BOOLEAN, META : BOOLEAN]

\* no pure function is under examination
NoCall == [fn |-> "none"]

\* the process after start-up: empty stores, any configuration
Init ==
  /\ shopTokens = [s \in Shops |-> NoToken]
  /\ insightsCache = [s \in Shops |-> NoInsights]
  /\ orderDataCache = [s \in Shops |-> NoOrderData]
  /\ now = 0
  /\ config \in Configs
  /\ req = [r \in Slots |-> IdleReq]
  /\ session = [nonce |-> "none"]
  /\ call = NoCall

\* the steps of the dashboard handlers in the slots RS, of /disconnect and
\* of the clock, which moves by one of the Steps; the storefront fails with
\* one of the Errors and the model answers one of the Texts
Pipeline(RS, Steps, Errors, Texts) ==
  \/ \E r \in RS, s \in Shops, force \in BOOLEAN : DashboardStart(r, s, force)
  \/ \E r \in RS, s \in Shops : RefreshStart(r, s)
  \/ \E r \in RS : ShopOk(r)
  \/ \E r \in RS, e \in Errors : ShopFail(r, e)
  \/ \E r \in RS : OrderCountOk(r)
  \/ \E r \in RS : OrderPageNext(r)
  \/ \E r \in RS : OrderPageLast(r)
  \/ \E r \in RS, e \in Errors : OrderFail(r, e)
  \/ \E r \in RS, gaOut, metaOut \in {"data", "throws", "null"} : Join(r, gaOut, metaOut)
  \/ \E r \in RS, text \in Texts : ModelOk(r, text)
  \/ \E r \in RS, e \in ModelErrors : ModelFail(r, e)
  \/ \E s \in Shops : Disconnect(s)
  \/ \E d \in Steps : Tick(d)

\* the steps of the OAuth handlers
OAuth(RS) ==
  \/ \E s \in Shops, nonce \in Nonces : Auth(s, nonce)
  \/ \E r \in RS, s \in Shops, state \in QueryStates, hmac \in {"absent", "invalid", "valid"} :
       CallbackStart(r, s, state, hmac)
  \/ \E r \in RS, ok \in BOOLEAN : TokenExchange(r, ok)

\* one request with awaits in flight at a time, over more than a day, with
\* the optional sources not configured
InitNoSources == Init /\ ~config.GA /\ ~config.META

Next ==
  \/ Pipeline({1}, {1, INSIGHTS_TTL}, StorefrontErrors, ModelTexts)
  \/ OAuth({1})
  \/ \E s \in Shops : Settings(s)

Spec == InitNoSources /\ [][Next]_vars

\* a day passes while no request is in flight and no call is running
QuietTick(d) ==
  /\ \A r \in Reqs : Live[r].pc = "idle"
  /\ Tick(d)

\* one request in flight at a time, each over within a few milliseconds, with
\* whole days passing only between requests
NextQuietDays ==
  \/ Pipeline({1}, {1}, StorefrontErrors, ModelTexts)
  \/ OAuth({1})
  \/ QuietTick(INSIGHTS_TTL)

SpecQuietDays == InitNoSources /\ [][NextQuietDays]_vars

\* one request with awaits in flight at a time, within a few milliseconds,
\* under every configuration of the optional sources and of the model key
NextSources == Pipeline({1}, {1}, StorefrontErrors, ModelTexts) \/ OAuth({1})

SpecSources == Init /\ [][NextSources]_vars

\* two requests in flight at a time within a few milliseconds, for a shop that
\* is installed, with the model key set; the storefront fails with 401 or 500
InitConcurrent ==
  /\ shopTokens = [s \in Shops |-> [accessToken |-> "token"]]
  /\ insightsCache = [s \in Shops |-> NoInsights]
  /\ orderDataCache = [s \in Shops |-> NoOrderData]
  /\ now = 0
  /\ config = [ANTHROPIC_API_KEY |-> TRUE, GA |-> FALSE, META |-> FALSE]
  /\ req = [r \in Slots |-> IdleReq]
  /\ session = [nonce |-> "none"]
  /\ call = NoCall

NextConcurrent ==
  Pipeline(Reqs, {1}, {e \in StorefrontErrors : ~e.bodyHas401}, {"five_sections", "no_sections"})

SpecConcurrent == InitConcurrent /\ [][NextConcurrent]_vars

\* beyond the last value of the modelled clock time still passes: the model
\* call's round trip completes with the clock's value unchanged
Latency(r) ==
  /\ Live[r].pc = "model"
  /\ ~Live[r].elapsed
  /\ ~OnClock(now + 1)
  /\ req' = [Live EXCEPT ![r] = [@ EXCEPT !.elapsed = TRUE]]
  /\ UNCHANGED <<shopTokens, insightsCache, orderDataCache, now, config, session, call>>

\* the upstream calls of the handler in slot r answer sooner or later
ShopAnswers(r) == ShopOk(r) \/ \E e \in StorefrontErrors : ShopFail(r, e)

OrdersAnswer(r) ==
  \/ OrderCountOk(r) \/ OrderPageNext(r) \/ OrderPageLast(r)
  \/ \E e \in StorefrontErrors : OrderFail(r, e)

SourcesAnswer(r) == \E gaOut, metaOut \in {"data", "throws", "null"} : Join(r, gaOut, metaOut)

ModelAnswers(r) ==
  \/ Live[r].pc = "model" /\ ~Live[r].elapsed /\ Tick(1)
  \/ Latency(r)
  \/ \E text \in ModelTexts : ModelOk(r, text)
  \/ \E e \in ModelErrors : ModelFail(r, e)

\* one request in flight at a time for an installed shop with the model key
\* set, every upstream call of which answers or fails in the end
NextLive == Pipeline({1}, {1}, StorefrontErrors, ModelTexts) \/ Latency(1)

SpecLive ==
  /\ InitConcurrent
  /\ [][NextLive]_vars
  /\ WF_vars(ShopAnswers(1))
  /\ WF_vars(OrdersAnswer(1))
  /\ WF_vars(SourcesAnswer(1))
  /\ WF_vars(ModelAnswers(1))

\* two requests in flight at a time whose model calls may answer in either
\* order, also once the modelled clock has reached its last value; the
\* storefront fails with 500, the model answers five sections
NextOverlap ==
  \/ Pipeline(Reqs, {1}, {e \in StorefrontErrors : e.status = 500 /\ ~e.bodyHas401},
              {"five_sections"})
  \/ \E r \in Reqs : Latency(r)

SpecOverlap == InitConcurrent /\ [][NextOverlap]_vars

(* ---- generateTileInsights: parsing and severities ---- *)
\* A text is a sequence of tokens: "###", "sp" (a blank), "nl" (a line break)
\* and words; a word stands for itself, the words "green", "yellow" and "red"
\* for the status markers.
Whitespace(tok) == tok \in {"sp", "nl"}

RECURSIVE TrimStart(_)
TrimStart(s) ==
  IF s = <<>> THEN <<>>
  ELSE IF Whitespace(Head(s)) THEN TrimStart(Tail(s)) ELSE s

RECURSIVE TrimEnd(_)
TrimEnd(s) ==
  IF s = <<>> THEN <<>>
  ELSE IF Whitespace(s[Len(s)]) THEN TrimEnd(SubSeq(s, 1, Len(s) - 1)) ELSE s

\* a variant of trim that leaves the string as it is
Untrimmed(s) == s

\* String.prototype.trim
Trim(s) == TrimEnd(TrimStart(s))

\* text.split(/###\s*/): the text is cut at every "###", which takes the
\* whitespace after it along
RECURSIVE SplitFrom(_, _, _)
SplitFrom(text, section, sections) ==
  IF text = <<>> THEN Append(sections, section)
  ELSE IF Head(text) = "###"
       THEN SplitFrom(TrimStart(Tail(text)), <<>>, Append(sections, section))
       ELSE SplitFrom(Tail(text), Append(section, Head(text)), sections)

SplitSections(text) == SplitFrom(text, <<>>, <<>>)

\* the position of the first line break of s, 0 if there is none
FirstNl(s) ==
  IF \E i \in 1..Len(s) : s[i] = "nl"
  THEN CHOOSE i \in 1..Len(s) : s[i] = "nl" /\ \A j \in 1..(i - 1) : s[j] # "nl"
  ELSE 0

\* trimmed.split("\n")[0]
FirstLine(trimmed) ==
  IF FirstNl(trimmed) = 0 THEN trimmed ELSE SubSeq(trimmed, 1, FirstNl(trimmed) - 1)

\* trimmed.replace(/^[^\n]+\n/, "").trim(): the first line is cut off when a
\* line break follows it; without a line break nothing is replaced
Body(trimmed) ==
  IF FirstNl(trimmed) > 1
  THEN Trim(SubSeq(trimmed, FirstNl(trimmed) + 1, Len(trimmed)))
  ELSE Trim(trimmed)

\* the keywords of the parser that occur in a word once it is upper-cased
KeywordsIn(word) ==
  CASE word = "Health" -> {"HEALTH"}
    [] word = "Issue" -> {"ISSUE"}
    [] word = "Quick" -> {"QUICK"}
    [] word = "Win" -> {"WIN"}
    [] word = "Opportunity" -> {"OPPORTUN"}
    [] word = "Ad" -> {"AD"}
    [] word = "Performance" -> {"PERF"}
    [] OTHER -> {}

\* firstLine.includes(keyword), firstLine upper-cased
Includes(firstLine, keyword) ==
  \E i \in 1..Len(firstLine) : keyword \in KeywordsIn(firstLine[i])

\* the tile a segment is assigned to by its first line
TileOf(firstLine) ==
  IF Includes(firstLine, "HEALTH") THEN "healthCheck"
  ELSE IF Includes(firstLine, "ISSUE") THEN "biggestIssue"
  ELSE IF Includes(firstLine, "QUICK") \/ Includes(firstLine, "WIN") THEN "quickWin"
  ELSE IF Includes(firstLine, "OPPORTUN") THEN "opportunity"
  ELSE IF Includes(firstLine, "AD") /\ Includes(firstLine, "PERF") THEN "adPerformance"
  ELSE "none"

TileNames == {"healthCheck", "biggestIssue", "quickWin", "opportunity", "adPerformance"}

EmptyTiles == [n \in TileNames |-> <<>>]

\* for (const section of sections) { ... }
RECURSIVE ParseSections(_, _)
ParseSections(sections, tiles) ==
  IF sections = <<>> THEN tiles
  ELSE LET trimmed == Trim(Head(sections))
           tile == TileOf(FirstLine(trimmed))
       IN IF trimmed = <<>> \/ tile = "none"
          THEN ParseSections(Tail(sections), tiles)
          ELSE ParseSections(Tail(sections), [tiles EXCEPT ![tile] = Body(trimmed)])

healthSeverity(healthCheck) ==
  IF \E i \in 1..Len(healthCheck) : healthCheck[i] = "yellow" THEN "warning"
  ELSE IF \E i \in 1..Len(healthCheck) : healthCheck[i] = "red" THEN "critical"
  ELSE "healthy"

\* metaAdsData = null
NullAdData == [isNull |-> TRUE, spend |-> 0, revenue |-> 0]

\* a variant whose lower threshold is inclusive
adSeverityInclusive(metaAdsData) ==
  IF ~metaAdsData.isNull /\ metaAdsData.spend > 0
  THEN IF 2 * metaAdsData.revenue <= 3 * metaAdsData.spend THEN "critical"
       ELSE IF 2 * metaAdsData.revenue <= 5 * metaAdsData.spend THEN "warning"
       ELSE "healthy"
  ELSE "healthy"

\* roas = revenue / spend compared with 1.5 and 2.5, in exact arithmetic:
\* roas < 1.5 iff 2 * revenue < 3 * spend, roas <= 2.5 iff 2 * revenue <= 5 * spend
adSeverity(metaAdsData) ==
  IF ~metaAdsData.isNull /\ metaAdsData.spend > 0
  THEN IF 2 * metaAdsData.revenue < 3 * metaAdsData.spend THEN "critical"
       ELSE IF 2 * metaAdsData.revenue <= 5 * metaAdsData.spend THEN "warning"
       ELSE "healthy"
  ELSE "healthy"

\* generateTileInsights from the model's text on: the tiles it returns
TilesFrom(text, metaAdsData) ==
  LET tiles == ParseSections(SplitSections(text), EmptyTiles)
  IN [healthCheck |-> tiles.healthCheck, biggestIssue |-> tiles.biggestIssue,
      quickWin |-> tiles.quickWin, opportunity |-> tiles.opportunity,
      adPerformance |-> tiles.adPerformance,
      healthSeverity |-> healthSeverity(tiles.healthCheck),
      adSeverity |-> adSeverity(metaAdsData)]

\* generateTileInsights is applied to the model's text and the ad data
GenerateTiles ==
  /\ call.fn = "generateTileInsights"
  /\ ~call.done
  /\ call' = [call EXCEPT !.tiles = TilesFrom(call.text, call.metaAdsData), !.done = TRUE]
  /\ UNCHANGED <<shopTokens, insightsCache, orderDataCache, now, config, req, session>>

\* the stores and handlers while a pure function is examined
Idle ==
  /\ shopTokens = [s \in Shops |-> NoToken]
  /\ insightsCache = [s \in Shops |-> NoInsights]
  /\ orderDataCache = [s \in Shops |-> NoOrderData]
  /\ now = 0
  /\ config = [ANTHROPIC_API_KEY |-> TRUE, GA |-> FALSE, META |-> TRUE]
  /\ req = [r \in Slots |-> IdleReq]
  /\ session = [nonce |-> "none"]

\* a section as the tile prompts ask for it: "### <header>", a line break, the
\* body and a blank line
Section(header, body) == <<"###", "sp">> \o header \o <<"nl">> \o body \o <<"nl", "nl">>

HealthHeader == <<"Health", "sp", "Check">>
AdHeader == <<"Ad", "sp", "Performance">>

\* health-check bodies: up to MaxWords words, each a status marker or a plain word
HealthBodies == UNION {[1..n -> {"green", "yellow", "red", "w"}] : n \in 0..MaxWords}

\* model texts with a health check and with or without an ad-performance section
SeverityTexts ==
  {Section(HealthHeader, b) : b \in HealthBodies}
  \cup {Section(HealthHeader, b) \o Section(AdHeader, <<"red", "w">>) : b \in HealthBodies}

AdData ==
  {NullAdData} \cup [isNull : {FALSE}, spend : 0..MaxSpend, revenue : 0..MaxRevenue]

\* generateTileInsights applied once to a model text and ad data of these sets
InitTiles ==
  /\ Idle
  /\ call \in [fn : {"generateTileInsights"}, text : SeverityTexts, metaAdsData : AdData,
                tiles : {TilesFrom(<<>>, NullAdData)}, done : {FALSE}]

NextTiles == GenerateTiles

SpecTiles == InitTiles /\ [][NextTiles]_vars

\* the sections of a model text: the five tiles' and one the prompt did not ask for
SectionNames == TileNames \cup {"none"}

Header(name) ==
  CASE name = "healthCheck" -> HealthHeader
    [] name = "biggestIssue" -> <<"Biggest", "sp", "Issue">>
    [] name = "quickWin" -> <<"Quick", "sp", "Win">>
    [] name = "opportunity" -> <<"Opportunity">>
    [] name = "adPerformance" -> AdHeader
    [] OTHER -> <<"Summary">>

\* up to MaxSections sections, each at most once, in any order
SectionOrders ==
  {order \in UNION {[1..n -> SectionNames] : n \in 0..MaxSections} :
     \A i, j \in DOMAIN order : i # j => order[i] # order[j]}

\* the body a section is written with: none (the header is followed by a
\* blank line only), or two lines that name the section, with blanks around
WrittenBody(name, blank) == IF name \in blank THEN <<>> ELSE <<name, "nl", "w">>

RECURSIVE Render(_, _)
Render(order, blank) ==
  IF order = <<>> THEN <<>>
  ELSE LET body == WrittenBody(Head(order), blank)
           padded == IF body = <<>> THEN <<>> ELSE <<"sp">> \o body \o <<"sp">>
       IN Section(Header(Head(order)), padded) \o Render(Tail(order), blank)

\* generateTileInsights applied once to a text written from sections in some
\* order, some of them without a body
InitParse ==
  /\ Idle
  /\ \E order \in SectionOrders :
       \E blank \in SUBSET {order[i] : i \in DOMAIN order} :
         call = [fn |-> "generateTileInsights", text |-> Render(order, blank),
                 metaAdsData |-> NullAdData, tiles |-> TilesFrom(<<>>, NullAdData),
                 done |-> FALSE, order |-> order, blank |-> blank]

SpecParse == InitParse /\ [][NextTiles]_vars

(* ---- prompts: buildDataSummary and buildTilePrompt ---- *)

\* A prompt is a sequence of lines and a line a sequence of words; <<>> is an
\* empty line.  A number is written into a line by ToString.

\* product titles: a plain one and one made of the characters of a header
Titles == {"Mug", "###"}

\* topProducts.byRevenue, as the titles of up to MaxProducts products
TopProducts == UNION {[1..n -> Titles] : n \in 0..MaxProducts}

\* shopifyStats, as far as the prompt and the context checks read it: the
\* order count, the average order value in whole pounds, the estimate flag
ShopifyStats == [orderCount : 0..MaxOrders, avgOrderValue : 1..MaxAov, revenueIsEstimated : BOOLEAN]

\* parseFloat((revenue / spend).toFixed(2)), in hundredths
roas(metaAdsData) == (200 * metaAdsData.revenue + metaAdsData.spend) \div (2 * metaAdsData.spend)

\* gaData = null
NullGaData == [isNull |-> TRUE, sessions |-> 0]

\* what fetchGoogleAnalyticsData resolves to: null, or the metrics of the
\* window (all zero when the report has no row), here the sessions
GaData == {NullGaData} \cup [isNull : {FALSE}, sessions : 0..1]

\* summary.ga4 and summary.meta_ads stay null unless the source's data is there
buildDataSummary(shopifyStats, gaData, metaAdsData, topProducts) ==
  [shopify |-> [orders |-> shopifyStats.orderCount,
                revenue_is_estimated |-> shopifyStats.revenueIsEstimated,
                aov |-> shopifyStats.avgOrderValue],
   ga4 |-> IF ~gaData.isNull THEN [isNull |-> FALSE, sessions |-> gaData.sessions]
           ELSE NullGaData,
   meta_ads |-> IF ~metaAdsData.isNull
                THEN [isNull |-> FALSE, spend |-> metaAdsData.spend, revenue |-> metaAdsData.revenue]
                ELSE NullAdData,
   top_products |-> topProducts]

TILE_PROMPTS(name) ==
  CASE name = "HEALTH_CHECK" ->
         << <<"###", "HEALTH", "CHECK">>, <<"Start", "with", "EXACTLY", "one", "status", "emoji">>,
            <<"One-line", "verdict">>, <<"Every", "metric", "must", "include", "an", "action">> >>
    [] name = "BIGGEST_ISSUE" ->
         << <<"###", "BIGGEST", "ISSUE">>, <<"The", "#1", "thing", "costing", "money">> >>
    [] name = "QUICK_WIN" ->
         << <<"###", "QUICK", "WIN">>, <<"One", "specific", "action">> >>
    [] name = "OPPORTUNITY" ->
         << <<"###", "OPPORTUNITY">>, <<"One", "growth", "pattern">> >>
    [] name = "AD_PERFORMANCE" ->
         << <<"###", "AD", "PERFORMANCE">>, <<"Start", "with", "EXACTLY", "one", "status", "emoji", "ROAS">>,
            <<"ROAS", "value", "verdict">> >>

\* the lines "<i>. <title> ..." of the products from the i-th on
RECURSIVE ProductLines(_, _)
ProductLines(titles, i) ==
  IF i > Len(titles) THEN <<>>
  ELSE << <<ToString(i) \o ".", titles[i]>> >> \o ProductLines(titles, i + 1)

tileCount(hasMetaAds) == IF hasMetaAds THEN 5 ELSE 4

buildTilePrompt(dataSummary, hasMetaAds) ==
  LET s == dataSummary.shopify
      m == dataSummary.meta_ads
      tp == dataSummary.top_products
      shopifyBlock ==
        << <<"Here", "is", "the", "store", "data">>, <<>>, <<"SHOPIFY", "DATA:">>,
           <<"-", "Orders:">>, <<"-", "AOV:">>,
           IF s.revenue_is_estimated THEN <<"-", "Estimated", "revenue:">> ELSE <<"-", "Revenue:">> >>
      gaBlock ==
        IF ~dataSummary.ga4.isNull
        THEN << <<>>, <<"GA4", "DATA:">>, <<"-", "Sessions:", ToString(dataSummary.ga4.sessions)>>, <<"-", "Bounce", "rate:">>,
                <<"-", "Users:">>, <<"-", "Page", "views:">> >>
        ELSE << <<>>, <<"GA4", "DATA:", "Not", "connected">> >>
      metaBlock ==
        IF ~m.isNull
        THEN << <<>>, <<"META", "ADS", "DATA:">>, <<"-", "Spend:", ToString(m.spend)>>,
                <<"-", "Revenue:", ToString(m.revenue)>>,
                <<"-", "ROAS:", IF m.spend > 0 THEN ToString(roas(m)) \o "x" ELSE "N/A">> >>
        ELSE << <<>>, <<"META", "ADS", "DATA:", "Not", "connected">> >>
      productBlock ==
        IF Len(tp) > 0
        THEN << <<>>, <<"TOP", "PRODUCTS", "BY", "REVENUE:">> >> \o ProductLines(tp, 1)
             \o << <<>>, <<"TOP", "PRODUCTS", "BY", "UNITS", "SOLD:">> >> \o ProductLines(tp, 1)
        ELSE <<>>
      dataBlock == shopifyBlock \o gaBlock \o metaBlock \o productBlock
      tileBlock ==
        << <<>>, <<"Respond", "with", "EXACTLY", "these", ToString(tileCount(hasMetaAds)),
                   "sections", "using", "###", "headers:">>, <<>> >>
        \o TILE_PROMPTS("HEALTH_CHECK") \o << <<>> >>
        \o TILE_PROMPTS("BIGGEST_ISSUE") \o << <<>> >>
        \o TILE_PROMPTS("QUICK_WIN") \o << <<>> >>
        \o TILE_PROMPTS("OPPORTUNITY")
        \o (IF hasMetaAds THEN << <<>> >> \o TILE_PROMPTS("AD_PERFORMANCE") ELSE <<>>)
  IN dataBlock \o tileBlock

\* a variant that takes the ad data as present whatever it is
hasMetaAdsAlways(metaAdsData) == TRUE

\* a variant that takes ad data without spend as absent
hasMetaAdsWhenSpent(metaAdsData) == ~metaAdsData.isNull /\ metaAdsData.spend > 0

\* const hasMetaAds = !!metaAdsData
hasMetaAds(metaAdsData) == ~metaAdsData.isNull

\* the notes of validateBusinessContext, put before the prompt when there are any
contextBlock(contextNotes) ==
  IF contextNotes > 0
  THEN << <<>>, <<"CONTEXT", "NOTES", "(acknowledge", "at", "the", "start", "of", "HEALTH", "CHECK):">> >>
       \o [i \in 1..contextNotes |-> <<"-", "note">>] \o << <<>> >>
  ELSE <<>>

\* generateTileInsights up to the model call: the user prompt it sends
userPrompt(shopifyStats, gaData, metaAdsData, topProducts, contextNotes) ==
  contextBlock(contextNotes)
  \o buildTilePrompt(buildDataSummary(shopifyStats, gaData, metaAdsData, topProducts),
                     hasMetaAds(metaAdsData))

\* buildTilePrompt is applied to a data summary and a flag
BuildTilePrompt ==
  /\ call.fn = "buildTilePrompt"
  /\ ~call.done
  /\ call' = [call EXCEPT !.prompt = buildTilePrompt(call.dataSummary, call.hasMetaAds),
                          !.done = TRUE]
  /\ UNCHANGED <<shopTokens, insightsCache, orderDataCache, now, config, req, session>>

\* generateTileInsights builds the summary, the flag and the user prompt
BuildUserPrompt ==
  /\ call.fn = "generateTileInsights.userPrompt"
  /\ ~call.done
  /\ call' = [call EXCEPT
       !.dataSummary = buildDataSummary(call.shopifyStats, call.gaData, call.metaAdsData, call.topProducts),
       !.hasMetaAds = hasMetaAds(call.metaAdsData),
       !.prompt = userPrompt(call.shopifyStats, call.gaData, call.metaAdsData, call.topProducts,
                             call.contextNotes),
       !.done = TRUE]
  /\ UNCHANGED <<shopTokens, insightsCache, orderDataCache, now, config, req, session>>

\* buildTilePrompt on any summary and flag, or generateTileInsights on any data
InitPrompt ==
  /\ Idle
  /\ \E shopifyStats \in ShopifyStats, gaData \in GaData, metaAdsData \in AdData,
        topProducts \in TopProducts :
       \/ \E flag \in BOOLEAN :
            call = [fn |-> "buildTilePrompt",
                    dataSummary |-> buildDataSummary(shopifyStats, gaData, metaAdsData, topProducts),
                    hasMetaAds |-> flag, prompt |-> <<>>, done |-> FALSE]
       \/ \E contextNotes \in 0..MaxNotes :
            call = [fn |-> "generateTileInsights.userPrompt",
                    shopifyStats |-> shopifyStats, gaData |-> gaData, metaAdsData |-> metaAdsData,
                    topProducts |-> topProducts, contextNotes |-> contextNotes,
                    dataSummary |-> buildDataSummary(shopifyStats, NullGaData, NullAdData, <<>>),
                    hasMetaAds |-> FALSE, prompt |-> <<>>, done |-> FALSE]

NextPrompt == BuildTilePrompt \/ BuildUserPrompt

SpecPrompt == InitPrompt /\ [][NextPrompt]_vars

\* the lines of a prompt that open a section: those that start with ###
SectionHeaders(prompt) == {i \in DOMAIN prompt : prompt[i] # <<>> /\ prompt[i][1] = "###"}

\* the counts a prompt states in its "Respond with EXACTLY these <n> sections"
StatedCounts(prompt) ==
  {prompt[i][5] : i \in {j \in DOMAIN prompt : Len(prompt[j]) >= 5 /\ prompt[j][1] = "Respond"}}

\* the lines of a prompt
Lines(prompt) == {prompt[i] : i \in DOMAIN prompt}

(* ---- lib/shopify: the order aggregation ---- *)

\* A JavaScript number is an IEEE 754 binary64: here a record [m, e] of value
\* m * 2^e, with m a sequence of Precision bits, the first of them 1, or Zero.
\* Only finite values >= 0 of moderate size occur.  Naturals of any size are
\* sequences of bits, most significant first.
Precision == 53

Zero == [m |-> <<>>, e |-> 0]

Zeros(n) == [i \in 1..n |-> 0]

RECURSIVE Bits(_)
Bits(n) == IF n = 0 THEN <<>> ELSE Bits(n \div 2) \o <<n % 2>>

\* a bit sequence without its leading zeros
Strip(b) ==
  IF \A i \in 1..Len(b) : b[i] = 0 THEN <<>>
  ELSE SubSeq(b, CHOOSE i \in 1..Len(b) : b[i] = 1 /\ \A j \in 1..(i - 1) : b[j] = 0, Len(b))

\* the carry into position i of the sum of two bit sequences of the same
\* length: some lower position generates one and all between pass it on
Carry(a, b, i) ==
  IF \E j \in (i + 1)..Len(a) :
       a[j] + b[j] = 2 /\ \A k \in (i + 1)..(j - 1) : a[k] + b[k] = 1
  THEN 1 ELSE 0

\* the sum of two bit sequences of the same length, one position longer
AddBits(a, b) ==
  [i \in 1..(Len(a) + 1) |->
     IF i = 1 THEN Carry(a, b, 0) ELSE (a[i - 1] + b[i - 1] + Carry(a, b, i - 1)) % 2]

Plus(a, b) ==
  LET n == IF Len(a) > Len(b) THEN Len(a) ELSE Len(b)
  IN Strip(AddBits(Zeros(n - Len(a)) \o a, Zeros(n - Len(b)) \o b))

\* long division of a bit sequence by a small d > 0, from the remainder r on:
\* the quotient's bits and the final remainder (the upper half first, its
\* remainder into the lower)
RECURSIVE DivBits(_, _, _)
DivBits(b, d, r) ==
  IF Len(b) = 0 THEN [q |-> <<>>, r |-> r]
  ELSE IF Len(b) = 1
  THEN [q |-> <<(2 * r + b[1]) \div d>>, r |-> (2 * r + b[1]) % d]
  ELSE LET h == Len(b) \div 2
           hi == DivBits(SubSeq(b, 1, h), d, r)
           lo == DivBits(SubSeq(b, h + 1, Len(b)), d, hi.r)
       IN [q |-> hi.q \o lo.q, r |-> lo.r]

\* the binary64 nearest to bits * 2^e (+ a nonzero fraction of 2^e when sticky),
\* ties to even
Round(bits, e, sticky) ==
  LET b == Strip(bits)
      n == Len(b)
  IN IF n = 0 THEN Zero
     ELSE IF n <= Precision
     THEN [m |-> b \o Zeros(Precision - n), e |-> e - (Precision - n)]
     ELSE LET m == SubSeq(b, 1, Precision)
              half == b[Precision + 1] = 1
              more == sticky \/ \E i \in (Precision + 2)..n : b[i] = 1
              up == half /\ (more \/ m[Precision] = 1)
              r == IF up THEN Plus(m, <<1>>) ELSE m
          IN IF Len(r) > Precision
             THEN [m |-> SubSeq(r, 1, Precision), e |-> e + (n - Precision) + 1]
             ELSE [m |-> r, e |-> e + (n - Precision)]

\* x + y of two numbers
Add(x, y) ==
  IF x = Zero THEN y
  ELSE IF y = Zero THEN x
  ELSE LET e == IF x.e < y.e THEN x.e ELSE y.e
       IN Round(Plus(x.m \o Zeros(x.e - e), y.m \o Zeros(y.e - e)), e, FALSE)

\* x / n of a number and a count n > 0
Divide(x, n) ==
  IF x = Zero THEN Zero
  ELSE LET d == DivBits(x.m \o Zeros(64), n, 0)
       IN Round(d.q, x.e - 64, d.r # 0)

\* a total_price is a decimal string with two decimals, "0.10": here its
\* amount in hundredths.  parseFloat gives the number nearest to it.
parseFloat(price) ==
  LET d == DivBits(Bits(price) \o Zeros(64), 100, 0)
  IN Round(d.q, 0 - 64, d.r # 0)

\* total_price values of the model, in hundredths
Prices == {10, 20, 25}

\* the parsed prices, computed once
Parsed == [p \in Prices |-> parseFloat(p)]

\* a page of orders.json: up to MaxOrders orders, here their total_price
OrderPages == UNION {[1..n -> Prices] : n \in 0..MaxOrders}

\* fetchAllPaidOrders: the orders of the pages, one after the other
RECURSIVE fetchAllPaidOrders(_)
fetchAllPaidOrders(pages) ==
  IF pages = <<>> THEN <<>> ELSE Head(pages) \o fetchAllPaidOrders(Tail(pages))

\* allPaidOrders.reduce((sum, o) => sum + parseFloat(o.total_price || 0), 0)
RECURSIVE revenue(_)
revenue(allPaidOrders) ==
  IF allPaidOrders = <<>> THEN Zero
  ELSE Add(revenue(SubSeq(allPaidOrders, 1, Len(allPaidOrders) - 1)),
           Parsed[allPaidOrders[Len(allPaidOrders)]])

\* getShopifyOrderData after a cache miss: the shopifyStats of the answers
shopifyStats(count, pages) ==
  LET allPaidOrders == fetchAllPaidOrders(pages)
      paidOrderCount == Len(allPaidOrders)
  IN [orderCount |-> count,
      revenue |-> revenue(allPaidOrders),
      avgOrderValue |-> IF paidOrderCount > 0
                        THEN Divide(revenue(allPaidOrders), paidOrderCount) ELSE Zero,
      sampleSize |-> paidOrderCount,
      revenueIsEstimated |-> FALSE]

\* getShopifyOrderData aggregates the answers of orders/count and of the pages
AggregateOrders ==
  /\ call.fn = "getShopifyOrderData"
  /\ ~call.done
  /\ call' = [call EXCEPT !.shopifyStats = shopifyStats(call.count, call.pages), !.done = TRUE]
  /\ UNCHANGED <<shopTokens, insightsCache, orderDataCache, now, config, req, session>>

\* getShopifyOrderData on a miss, with any count and 1..MaxPages pages
InitOrders ==
  /\ Idle
  /\ \E count \in 0..MaxOrders, pages \in UNION {[1..n -> OrderPages] : n \in 1..MaxPages} :
       call = [fn |-> "getShopifyOrderData", count |-> count, pages |-> pages,
               shopifyStats |-> shopifyStats(0, <<>>), done |-> FALSE]

NextOrders == AggregateOrders

SpecOrders == InitOrders /\ [][NextOrders]_vars

\* the sum of the prices of a list of orders, in hundredths
RECURSIVE Total(_)
Total(allPaidOrders) ==
  IF allPaidOrders = <<>> THEN 0 ELSE Head(allPaidOrders) + Total(Tail(allPaidOrders))

(* ---- lib/shopify: getShopifyOrderData, call by call ---- *)

\* Calls of getShopifyOrderData for one shop, one after the other, with the
\* clock moving in between and during a call.  The call in progress is in
\* call: its stage, the page asked for, the entry the cache held when it was
\* called (before) and the time of the call (at).
NoOrderCall ==
  [fn |-> "getShopifyOrderData.call", stage |-> "none", page |-> 0,
   before |-> NoOrderData, at |-> 0, returned |-> NoOrderData]

\* the call up to its first await: a live entry is returned, else the count
\* call is issued
GetOrderDataStart(s) ==
  /\ call.fn = "getShopifyOrderData.call"
  /\ call.stage \in {"none", "returned", "thrown"}
  /\ LET cached == getCachedOrderData(orderDataCache, s, now)
         c == [NoOrderCall EXCEPT !.before = orderDataCache[s], !.at = now]
     IN /\ orderDataCache' = orderDataCacheAfterGet(orderDataCache, s, now)
        /\ call' = IF cached # NoOrderData
                   THEN [c EXCEPT !.stage = "returned", !.returned = cached]
                   ELSE [c EXCEPT !.stage = "count"]
  /\ UNCHANGED <<shopTokens, insightsCache, now, config, req, session>>

\* the orders/count call answers 200: the first page is asked for
GetOrderDataCountOk ==
  /\ call.fn = "getShopifyOrderData.call"
  /\ call.stage = "count"
  /\ call' = [call EXCEPT !.stage = "page", !.page = 1]
  /\ UNCHANGED <<shopTokens, insightsCache, orderDataCache, now, config, req, session>>

\* a page answers 200 with a rel="next" link
GetOrderDataPageNext ==
  /\ call.fn = "getShopifyOrderData.call"
  /\ call.stage = "page"
  /\ call.page < MaxPages
  /\ call' = [call EXCEPT !.page = @ + 1]
  /\ UNCHANGED <<shopTokens, insightsCache, orderDataCache, now, config, req, session>>

\* the last page answers 200: the aggregate is cached and returned
GetOrderDataPageLast(s) ==
  /\ call.fn = "getShopifyOrderData.call"
  /\ call.stage = "page"
  /\ LET oc == setCachedOrderData(orderDataCache, s, NoOrderData, now)
     IN /\ orderDataCache' = oc
        /\ call' = [call EXCEPT !.stage = "returned", !.returned = oc[s]]
  /\ UNCHANGED <<shopTokens, insightsCache, now, config, req, session>>

\* the count call or a page answers with an error status: the call throws
GetOrderDataFail(e) ==
  /\ call.fn = "getShopifyOrderData.call"
  /\ call.stage \in {"count", "page"}
  /\ call' = [call EXCEPT !.stage = "thrown"]
  /\ UNCHANGED <<shopTokens, insightsCache, orderDataCache, now, config, req, session>>

InitOrderCalls == Idle /\ call = NoOrderCall

NextOrderCalls ==
  \/ \E s \in Shops : GetOrderDataStart(s)
  \/ GetOrderDataCountOk
  \/ GetOrderDataPageNext
  \/ \E s \in Shops : GetOrderDataPageLast(s)
  \/ \E e \in StorefrontErrors : GetOrderDataFail(e)
  \/ \E d \in {1, INSIGHTS_TTL} : Tick(d)

SpecOrderCalls == InitOrderCalls /\ [][NextOrderCalls]_vars

(* ---- lib/shopify: fetchAllPaidOrders ---- *)

\* The storefront holds the paid orders on 1..MaxPages pages.  The answer to
\* the request for page i carries the page's orders and a link header: an entry
\* rel="next" for page i + 1 unless i is the last page, an entry rel="previous"
\* for page i - 1 unless i is the first, in either order.  A url is the number
\* of the page it asks for; 0 is url = null.
LinkHeaders(i, n) ==
  LET next == [url |-> i + 1, rel |-> "next"]
      previous == [url |-> i - 1, rel |-> "previous"]
  IN IF i < n /\ i > 1 THEN {<<previous, next>>, <<next, previous>>}
     ELSE IF i < n THEN {<<next>>}
     ELSE IF i > 1 THEN {<<previous>>}
     ELSE {<<>>}

\* the storefronts of n pages
Storefronts(n) ==
  {st \in [1..n -> [orders : OrderPages, link : UNION {LinkHeaders(i, n) : i \in 1..n}]] :
     \A i \in 1..n : st[i].link \in LinkHeaders(i, n)}

\* a variant that follows the first entry of the header, whatever its rel
nextMatchFirst(linkHeader) ==
  IF linkHeader = <<>> THEN 0 ELSE linkHeader[1].url

\* linkHeader.match(/<([^>]+)>;\s*rel="next"/): the url of the first entry
\* with rel="next", 0 without one (or without a header)
nextMatch(linkHeader) ==
  IF \E k \in DOMAIN linkHeader : linkHeader[k].rel = "next"
  THEN linkHeader[CHOOSE k \in DOMAIN linkHeader :
                    /\ linkHeader[k].rel = "next"
                    /\ \A j \in 1..(k - 1) : linkHeader[j].rel # "next"].url
  ELSE 0

\* one turn of the loop: the page asked for answers 200
PageOk ==
  /\ call.fn = "fetchAllPaidOrders"
  /\ call.status = "running"
  /\ LET data == call.storefront[call.url]
         url == nextMatch(data.link)
     IN call' = [call EXCEPT !.allOrders = @ \o data.orders,
                             !.fetched = Append(@, call.url),
                             !.url = url,
                             !.status = IF url = 0 THEN "returned" ELSE "running",
                             !.returned = IF url = 0 THEN call.allOrders \o data.orders ELSE <<>>]
  /\ UNCHANGED <<shopTokens, insightsCache, orderDataCache, now, config, req, session>>

\* one turn of the loop: the page asked for answers with an error status
PageFail(e) ==
  /\ call.fn = "fetchAllPaidOrders"
  /\ call.status = "running"
  /\ call' = [call EXCEPT !.status = "thrown", !.err = e]
  /\ UNCHANGED <<shopTokens, insightsCache, orderDataCache, now, config, req, session>>

\* fetchAllPaidOrders called on a storefront of 1..MaxPages pages
InitPages ==
  /\ Idle
  /\ \E n \in 1..MaxPages : \E st \in Storefronts(n) :
       call = [fn |-> "fetchAllPaidOrders", storefront |-> st, url |-> 1, allOrders |-> <<>>,
               fetched |-> <<>>, status |-> "running", returned |-> <<>>, err |-> NoError]

NextPages == PageOk \/ \E e \in StorefrontErrors : PageFail(e)

SpecPages == InitPages /\ [][NextPages]_vars

\* the orders of the pages i..n of a storefront, page after page
RECURSIVE OrdersFrom(_, _)
OrdersFrom(st, i) ==
  IF i > Len(st) THEN <<>> ELSE st[i].orders \o OrdersFrom(st, i + 1)

(* ---- lib/shopify: the top products ---- *)

\* Line items carry a title, a price in whole pounds and a quantity of 1, so
\* that parseFloat(item.price) * quantity and the sums of them are exact.
ProductTitles == {"Mug", "Cap", "Bag", "Pen"}

LineItems == [title : ProductTitles, price : {1, 2}]

\* the line items of allPaidOrders, order after order
ItemLists == UNION {[1..n -> LineItems] : n \in 0..MaxItems}

\* productMap after the first n line items, as Object.values gives it: a
\* product per title in the order of first appearance
RECURSIVE productMap(_, _)
productMap(items, n) ==
  IF n = 0 THEN <<>>
  ELSE LET sofar == productMap(items, n - 1)
           item == items[n]
       IN IF \E k \in DOMAIN sofar : sofar[k].title = item.title
          THEN [k \in DOMAIN sofar |->
                  IF sofar[k].title = item.title
                  THEN [sofar[k] EXCEPT !.revenue = @ + item.price, !.units = @ + 1]
                  ELSE sofar[k]]
          ELSE Append(sofar, [title |-> item.title, revenue |-> item.price, units |-> 1])

\* [...allProducts].sort((a, b) => b.revenue - a.revenue): by falling revenue,
\* products of equal revenue in the order they had (the sort is stable)
sortByRevenue(allProducts) ==
  LET place(i) == 1 + Cardinality({j \in DOMAIN allProducts :
                        \/ allProducts[j].revenue > allProducts[i].revenue
                        \/ allProducts[j].revenue = allProducts[i].revenue /\ j < i})
  IN [p \in DOMAIN allProducts |->
        allProducts[CHOOSE i \in DOMAIN allProducts : place(i) = p]]

\* slice(0, n)
slice(list, n) == SubSeq(list, 1, IF Len(list) < n THEN Len(list) ELSE n)

\* topProducts.byRevenue of getShopifyOrderData
byRevenue(items) == slice(sortByRevenue(productMap(items, Len(items))), 3)

\* by_revenue of the data summary, as the titles of its products
titlesOf(products) == [i \in DOMAIN products |-> products[i].title]

(* ---- prompts: validateBusinessContext ---- *)

\* business-context.json as far as validateBusinessContext reads it: the aov
\* band (whether aov_band matches /£(\d+)-(\d+)/, and the two numbers), the
\* hero products, the roas goal and the cac ceiling (0 when not set)
NoBand == [matches |-> FALSE, low |-> 0, high |-> 0]

HeroLists == {<<>>, <<"mug">>, <<"PEN">>, <<"mug", "PEN">>}

BusinessContexts ==
  [aov_band : {NoBand, [matches |-> TRUE, low |-> 2, high |-> 4]},
   hero_products : HeroLists, roas_goal : {0, 4}, cac_ceiling : {0, 1}]

\* the contexts whose checks of the ad data are off
HeroContexts == {bc \in BusinessContexts : bc.roas_goal = 0 /\ bc.cac_ceiling = 0}

toLowerCase(title) ==
  CASE title \in {"Mug", "mug"} -> "mug"
    [] title \in {"Pen", "PEN"} -> "pen"
    [] title = "Cap" -> "cap"
    [] title = "Bag" -> "bag"
    [] OTHER -> title

\* a variant of the band check that takes the lower limit as outside
aovNoteExclusive(bc, s) ==
  IF bc.aov_band.matches
  THEN IF s.aov <= bc.aov_band.low THEN << [check |-> "aov", about |-> <<"below">>] >>
       ELSE IF s.aov > bc.aov_band.high THEN << [check |-> "aov", about |-> <<"above">>] >>
       ELSE <<>>
  ELSE <<>>

\* 1. the aov band check
aovNote(bc, s) ==
  IF bc.aov_band.matches
  THEN IF s.aov < bc.aov_band.low THEN << [check |-> "aov", about |-> <<"below">>] >>
       ELSE IF s.aov > bc.aov_band.high THEN << [check |-> "aov", about |-> <<"above">>] >>
       ELSE <<>>
  ELSE <<>>

\* the hero products that are not among the first five titles of by_revenue
missingHeroes(bc, dataSummary) ==
  LET topTitles == slice(dataSummary.top_products, 5)
      among(hero) == \E i \in DOMAIN topTitles : toLowerCase(topTitles[i]) = toLowerCase(hero)
  IN SelectSeq(bc.hero_products, LAMBDA hero : ~among(hero))

\* 2. the hero products check
heroNote(bc, dataSummary) ==
  IF /\ Len(bc.hero_products) > 0
     /\ Len(dataSummary.top_products) > 0
     /\ Len(missingHeroes(bc, dataSummary)) > 0
  THEN << [check |-> "hero", about |-> missingHeroes(bc, dataSummary)] >>
  ELSE <<>>

\* 3. the roas check: roas (in hundredths) below half the goal
roasNote(bc, dataSummary) ==
  LET m == dataSummary.meta_ads
  IN IF bc.roas_goal # 0 /\ ~m.isNull /\ m.spend > 0 /\ 2 * roas(m) < 100 * bc.roas_goal
     THEN << [check |-> "roas", about |-> <<>>] >>
     ELSE <<>>

\* 4. the cpa check: spend / orders above the ceiling, or above twice the
\* ceiling (the amounts are whole pounds, so the comparisons are exact)
cpaNote(bc, dataSummary) ==
  LET m == dataSummary.meta_ads
      s == dataSummary.shopify
  IN IF bc.cac_ceiling # 0 /\ ~m.isNull /\ m.spend > 0 /\ s.orders > 0
        /\ m.spend > bc.cac_ceiling * s.orders
     THEN IF m.spend > 2 * bc.cac_ceiling * s.orders
          THEN << [check |-> "cpa", about |-> <<"double">>] >>
          ELSE << [check |-> "cpa", about |-> <<"above">>] >>
     ELSE <<>>

validateBusinessContext(bc, dataSummary) ==
  aovNote(bc, dataSummary.shopify) \o heroNote(bc, dataSummary)
  \o roasNote(bc, dataSummary) \o cpaNote(bc, dataSummary)

\* validateBusinessContext is applied to a context and a data summary, twice
Validate ==
  /\ call.fn = "validateBusinessContext"
  /\ ~call.done
  /\ call' = [call EXCEPT !.notes = validateBusinessContext(call.businessContext, call.dataSummary),
                          !.again = validateBusinessContext(call.businessContext, call.dataSummary),
                          !.done = TRUE]
  /\ UNCHANGED <<shopTokens, insightsCache, orderDataCache, now, config, req, session>>

\* the generation pipeline from the paid orders to the context notes: the top
\* products of getShopifyOrderData, buildDataSummary, validateBusinessContext
ContextNotes ==
  /\ call.fn = "generateTileInsights.contextNotes"
  /\ ~call.done
  /\ LET topProducts == titlesOf(byRevenue(call.items))
         dataSummary == buildDataSummary(call.shopifyStats, NullGaData, NullAdData, topProducts)
     IN call' = [call EXCEPT !.dataSummary = dataSummary,
                             !.notes = validateBusinessContext(call.businessContext, dataSummary),
                             !.done = TRUE]
  /\ UNCHANGED <<shopTokens, insightsCache, orderDataCache, now, config, req, session>>

\* validateBusinessContext on any context and summary
InitValidate ==
  /\ Idle
  /\ \E bc \in BusinessContexts, stats \in {st \in ShopifyStats : ~st.revenueIsEstimated},
        metaAdsData \in AdData, topProducts \in TopProducts :
       call = [fn |-> "validateBusinessContext", businessContext |-> bc,
               dataSummary |-> buildDataSummary(stats, NullGaData, metaAdsData, topProducts),
               notes |-> <<>>, again |-> <<>>, done |-> FALSE]

NextValidate == Validate

SpecValidate == InitValidate /\ [][NextValidate]_vars

\* the pipeline on any paid orders of up to MaxItems line items
InitHeroes ==
  /\ Idle
  /\ \E bc \in HeroContexts, items \in ItemLists :
       call = [fn |-> "generateTileInsights.contextNotes", businessContext |-> bc,
               items |-> items,
               shopifyStats |-> [orderCount |-> 1, avgOrderValue |-> 3, revenueIsEstimated |-> FALSE],
               dataSummary |-> buildDataSummary(
                   [orderCount |-> 1, avgOrderValue |-> 3, revenueIsEstimated |-> FALSE],
                   NullGaData, NullAdData, <<>>),
               notes |-> <<>>, done |-> FALSE]

NextHeroes == ContextNotes

SpecHeroes == InitHeroes /\ [][NextHeroes]_vars

\* the heroes a note list flags
Flagged(notes) ==
  UNION {{notes[i].about[k] : k \in DOMAIN notes[i].about} :
           i \in {j \in DOMAIN notes : notes[j].check = "hero"}}

\* the number of products that sold for more than the product of this title
Ahead(items, title) ==
  LET allProducts == productMap(items, Len(items))
  IN Cardinality({j \in DOMAIN allProducts :
       \E i \in DOMAIN allProducts :
         allProducts[i].title = title /\ allProducts[j].revenue > allProducts[i].revenue})

(* ---- the claims ---- *)

\* C1: with the model key set, a GET /dashboard with refresh=1 of an installed
\* shop that finds a live insights entry never serves it: it skips the lookup and goes into
\* generation (skeleton, shop call, order count and pagination, the optional
\* sources that are configured, one model call), and the entry it stores is
\* stamped with a generatedAt strictly greater than that of the entry it found.
ForcedRefreshRegenerates ==
  \A r \in Reqs :
    LET rq == req[r]
    IN (/\ config.ANTHROPIC_API_KEY
        /\ rq.kind = "dashboard" /\ rq.force /\ rq.out # "redirect_install"
        /\ rq.prior # "none") =>
         /\ rq.look = "skipped"
         /\ rq.insightsData = NoInsights
         /\ rq.out \notin {"page_cached", "page_setup"}
         /\ rq.skeleton
         /\ rq.calls.shop = 1
         /\ rq.calls.count = 1
         /\ rq.calls.ga = (IF config.GA THEN 1 ELSE 0)
         /\ rq.calls.meta = (IF config.META THEN 1 ELSE 0)
         /\ rq.stored # NoInsights =>
               /\ rq.calls.pages >= 1
               /\ rq.calls.model = 1
               /\ rq.prior = "earlier"
               /\ rq.stored.generatedAt = now
               /\ insightsCache[rq.shop] = rq.stored

\* a forced refresh that found a live entry has stored a new one
ForcedRefreshRegeneratesWitness ==
  /\ config.ANTHROPIC_API_KEY
  /\ req[1].kind = "dashboard" /\ req[1].force
  /\ req[1].prior = "earlier"
  /\ req[1].out = "stream_content"
  /\ req[1].stored # NoInsights

\* C2: a lookup made strictly before an entry's time stamp plus 24 h returns
\* the entry, a lookup made strictly after it returns nothing (and the expired
\* order-data entry is deleted), for the insights cache (the lookup of a
\* non-forced GET /dashboard) and the order-data cache (the lookup of
\* getShopifyOrderData); the clock never goes back and an entry's time stamp
\* only changes by a set that stamps the current time, so an expired entry
\* does not become visible again.
EntriesLiveFor24h ==
  [][/\ now' >= now
     /\ \A s \in Shops :
          /\ insightsCache'[s] # insightsCache[s] =>
                insightsCache'[s] = NoInsights \/ insightsCache'[s].generatedAt = now'
          /\ orderDataCache'[s] # orderDataCache[s] =>
                orderDataCache'[s] = NoOrderData \/ orderDataCache'[s].cachedAt = now'
     /\ \A r \in Reqs :
          LET rq == req'[r]
              ins == insightsCache[rq.shop]
              ord == orderDataCache[rq.shop]
          IN /\ (Free(r) /\ rq.look \in {"hit", "miss"} /\ ins # NoInsights) =>
                  /\ now < ins.generatedAt + INSIGHTS_TTL =>
                        rq.look = "hit" /\ rq.insightsData = ins
                  /\ now > ins.generatedAt + INSIGHTS_TTL =>
                        rq.look = "miss" /\ rq.insightsData = NoInsights
             /\ (Free(r) /\ rq.pc = "gen" /\ ~rq.force /\ ord # NoOrderData) =>
                  /\ now < ord.cachedAt + ORDER_DATA_TTL =>
                        rq.ordSt = "cached" /\ rq.ord = ord
                  /\ now > ord.cachedAt + ORDER_DATA_TTL =>
                        rq.ordSt = "count" /\ orderDataCache'[rq.shop] = NoOrderData
    ]_vars

\* a non-forced GET /dashboard has found the insights entry expired (the
\* entry is still stored) and has no order data to use
EntriesLiveFor24hWitness ==
  /\ req[1].kind = "dashboard" /\ ~req[1].force
  /\ req[1].look = "miss" /\ req[1].pc = "gen" /\ req[1].ordSt = "count"
  /\ insightsCache[req[1].shop] # NoInsights
  /\ now > insightsCache[req[1].shop].generatedAt + INSIGHTS_TTL
  /\ orderDataCache[req[1].shop] = NoOrderData

\* C3: a GET /dashboard without refresh that finds a live insights entry makes
\* one storefront call, the shop lookup, and no order-count, order-page,
\* analytics, ad-platform or model call; no step of it other than a failed
\* shop lookup changes the token store or either cache; when the shop lookup
\* answers it serves the page rendered from the entry it found.
CacheHitServesEntry ==
  [][\A r \in Reqs :
       LET rq == req'[r]
       IN (rq.kind = "dashboard" /\ rq.look = "hit") =>
            /\ ~rq.force
            /\ rq.calls = [NoCalls EXCEPT !.shop = 1]
            /\ ~rq.skeleton
            /\ rq.insightsData # NoInsights
            /\ Free(r) => rq.insightsData = insightsCache[rq.shop]
            /\ (req'[r] # req[r] /\ rq.shopSt # "failed") =>
                  UNCHANGED <<shopTokens, insightsCache, orderDataCache>>
            /\ rq.shopSt = "ok" =>
                  /\ rq.out = "page_cached"
                  /\ rq.html = buildContentHtml(rq.insightsData)
    ]_vars

\* the cached tiles have been served to an installed shop whose order data
\* is cached as well
CacheHitServesEntryWitness ==
  /\ req[1].kind = "dashboard" /\ req[1].look = "hit"
  /\ req[1].out = "page_cached" /\ req[1].html = "tiles"
  /\ shopTokens[req[1].shop] # NoToken
  /\ insightsCache[req[1].shop] = req[1].insightsData
  /\ orderDataCache[req[1].shop] # NoOrderData

\* C4: in the step in which a storefront call of GET /dashboard or of
\* GET /dashboard/refresh (shop lookup, order count or an order page) first
\* answers 401, the handler removes the shop's token, insights entry and
\* order-data entry and its answer sends the caller to re-authentication.
\* (Violated: a 401 that arrives after Promise.all has rejected is dropped.)
Storefront401Reauthenticates ==
  [][\A r \in Reqs :
       (req'[r].kind \in {"dashboard", "refresh"} /\ ~Live[r].saw401 /\ req'[r].saw401) =>
          /\ req'[r].out \in {"redirect_token_expired", "stream_token_expired",
                               "json_401_token_expired"}
          /\ shopTokens'[req'[r].shop] = NoToken
          /\ insightsCache'[req'[r].shop] = NoInsights
          /\ orderDataCache'[req'[r].shop] = NoOrderData
    ]_vars

\* C5: in the step in which the model call of a cache-miss GET /dashboard
\* throws, whatever the message, the handler answers with the retry notice,
\* has stored no insights entry, and leaves the token store and the insights
\* cache as they are. (Violated: a message containing 401 deletes the token.)
ModelErrorGivesRetry ==
  [][\A r \in Reqs :
       (req'[r].kind = "dashboard" /\ req'[r].errFrom = "model" /\ req'[r] # req[r]) =>
          /\ req'[r].out = "stream_try_again"
          /\ req'[r].stored = NoInsights
          /\ UNCHANGED <<shopTokens, insightsCache>>
    ]_vars

\* C6: in both handlers, whatever the analytics fetch and the ad-platform
\* fetch do (answer, throw, or return null when not configured), generation
\* can go on to the model call; a source that threw is held as null, like one
\* that is not configured, the other source's data is held as it came, and
\* the entry stored carries exactly these and the order data fetched.
OptionalSourcesIsolated ==
  \A r \in Reqs :
    LET rq == req[r]
    IN /\ (rq.pc = "gen" /\ rq.shopSt = "ok" /\ rq.ordSt \in {"cached", "done"}) =>
            \A gaOut \in SourceOutcomes(config.GA), metaOut \in SourceOutcomes(config.META) :
              ENABLED Join(r, gaOut, metaOut)
       /\ (rq.kind \in {"dashboard", "refresh"} /\ (rq.pc = "model" \/ rq.stored # NoInsights)) =>
            /\ rq.gaData = (IF rq.gaOut = "data" THEN "data" ELSE "null")
            /\ rq.metaAdsData = (IF rq.metaOut = "data" THEN "data" ELSE "null")
            /\ rq.errFrom = "none"
            /\ rq.ord # NoOrderData
            /\ config.ANTHROPIC_API_KEY => rq.calls.model = 1
            /\ rq.stored # NoInsights =>
                  /\ rq.stored.gaData = rq.gaData
                  /\ rq.stored.metaAdsData = rq.metaAdsData
                  /\ rq.stored.shopifyStats = rq.ord
                  /\ insightsCache[rq.shop] = rq.stored

\* an entry has been stored after the analytics fetch threw and the
\* ad-platform fetch answered
OptionalSourcesIsolatedWitness ==
  /\ req[1].kind = "dashboard" /\ req[1].calls.model = 1
  /\ req[1].gaOut = "throws" /\ req[1].metaOut = "data"
  /\ req[1].stored # NoInsights
  /\ req[1].stored.gaData = "null" /\ req[1].stored.metaAdsData = "data"

\* C7: a GET /dashboard whose model call answered with a text that parses to
\* five empty tile bodies shows the retry notice and leaves the shop without
\* an insights entry. (Violated: the empty tiles are stored like any others.)
EmptyTilesLeaveNoEntry ==
  \A r \in Reqs :
    LET rq == req[r]
    IN (/\ rq.kind = "dashboard" /\ rq.pc = "done" /\ rq.calls.model = 1
        /\ rq.errFrom = "none" /\ ~hasTiles(rq.tiles)) =>
         /\ rq.html = "insights_error_try_again"
         /\ insightsCache[rq.shop] = NoInsights

\* C8: every step that removes a shop's token removes its insights entry and
\* its order-data entry in the same step, and the state a POST /disconnect
\* leaves, which is the first state any other handler step can see, holds
\* none of the three, whatever requests are in flight.
DeleteShopTokenAtomic ==
  [][/\ \A s \in Shops :
          (shopTokens[s] # NoToken /\ shopTokens'[s] = NoToken) =>
             insightsCache'[s] = NoInsights /\ orderDataCache'[s] = NoOrderData
     /\ req'[0].kind = "disconnect" =>
          /\ shopTokens'[req'[0].shop] = NoToken
          /\ insightsCache'[req'[0].shop] = NoInsights
          /\ orderDataCache'[req'[0].shop] = NoOrderData
    ]_vars

\* a disconnect has removed a token, an insights entry and an order-data
\* entry while a request of the shop was in flight
DeleteShopTokenAtomicWitness ==
  /\ req[0].kind = "disconnect"
  /\ req[0].had = [token |-> TRUE, insights |-> TRUE, orders |-> TRUE]
  /\ Stored(req[0].shop) = NothingStored
  /\ req[1].pc \in {"gen", "model"}

\* C9: a forced refresh of an installed shop (GET /dashboard with refresh=1
\* that goes into generation, GET /dashboard/refresh) leaves both caches
\* without an entry of the shop at the end of its first step, in which the
\* order-data lookup is made; it never takes its order data from the cache but
\* issues the count call, and the entry it stores carries the order data of
\* its own pagination, whatever other requests do in between.
ForcedRefreshRefetchesOrders ==
  [][\A r \in Reqs :
       LET rq == req'[r]
       IN (/\ rq.kind \in {"dashboard", "refresh"} /\ rq.force
           /\ rq.pc \notin {"idle", "hit"}
           /\ rq.out \notin {"redirect_install", "json_401_not_authenticated"}) =>
            /\ Free(r) => /\ insightsCache'[rq.shop] = NoInsights
                          /\ orderDataCache'[rq.shop] = NoOrderData
            /\ rq.ordSt # "cached"
            /\ rq.calls.count = 1
            /\ rq.ord # NoOrderData => rq.ordSt = "done" /\ rq.calls.pages >= 1
            /\ rq.stored # NoInsights =>
                  rq.ord # NoOrderData /\ rq.stored.shopifyStats = rq.ord
    ]_vars

\* a forced GET /dashboard that started while another request was in flight
\* and found order data cached has stored an entry
ForcedRefreshRefetchesOrdersWitness ==
  /\ req[2].kind = "dashboard" /\ req[2].force
  /\ req[2].had.orders
  /\ req[2].stored # NoInsights
  /\ req[2].calls.pages = MaxPages

\* C10: every GET /dashboard that observed a miss and went through to the end
\* has made its own shop call, order fetch or order-cache lookup and model
\* call, and the entry in the cache right after it stored is its own (its
\* tiles, its order data, stamped with the time of its write), whether or not
\* another request had stored an entry in between.
ConcurrentMissesLastWriterWins ==
  \A r \in Reqs :
    LET rq == req[r]
    IN (rq.kind = "dashboard" /\ rq.look = "miss" /\ rq.out = "stream_content") =>
         /\ rq.calls.shop = 1
         /\ rq.calls.model = 1
         /\ rq.ordSt = "cached" \/ (rq.calls.count = 1 /\ rq.calls.pages >= 1)
         /\ rq.stored = [generatedAt |-> now, tiles |-> rq.tiles, shopifyStats |-> rq.ord,
                         gaData |-> rq.gaData, metaAdsData |-> rq.metaAdsData]
         /\ insightsCache[rq.shop] = rq.stored

\* a GET /dashboard that observed a miss while another request was in flight
\* has overwritten the entry stored since
ConcurrentMissesLastWriterWinsWitness ==
  /\ req[2].kind = "dashboard" /\ req[2].look = "miss"
  /\ req[2].out = "stream_content"
  /\ req[2].overwrote
  /\ insightsCache[req[2].shop] = req[2].stored

\* C11: with the model key set, a GET /dashboard of an installed shop that
\* observes a miss has written the skeleton by the end of the step in which
\* its upstream calls are started and has written nothing else until it
\* answers; its answer is one of the three follow-ups (content, retry notice,
\* re-authentication redirect) after the skeleton; and when every upstream
\* call answers or fails, the response is ended.
SkeletonThenOneFollowUp ==
  /\ [](\A r \in Reqs :
          LET rq == req[r]
          IN (rq.kind = "dashboard" /\ rq.look = "miss") =>
               /\ rq.skeleton
               /\ rq.calls.shop = 1
               /\ ~Answered(rq) => rq.out = "none"
               /\ Answered(rq) => rq.out \in {"stream_content", "stream_try_again",
                                              "stream_token_expired"})
  /\ \A r \in {1} :
       (req[r].kind = "dashboard" /\ req[r].look = "miss" /\ ~Answered(req[r]))
         ~> (/\ req[r].kind = "dashboard" /\ req[r].look = "miss" /\ Answered(req[r])
             /\ req[r].skeleton
             /\ req[r].out \in {"stream_content", "stream_try_again", "stream_token_expired"})

\* the retry notice has been written after the skeleton while a call of the
\* request was still running
SkeletonThenOneFollowUpWitness ==
  /\ req[1].kind = "dashboard" /\ req[1].look = "miss"
  /\ req[1].skeleton
  /\ req[1].pc = "bg"
  /\ req[1].out = "stream_try_again"

\* C12: in the step in which GET /dashboard or GET /dashboard/refresh catches
\* the failure of a storefront call with a status other than 401, the handler
\* answers with a generic failure (error page, JSON 500 or retry notice), has
\* stored no insights entry and rendered no content, and leaves the token
\* store as it is. (Violated: an error body containing 401 deletes the token.)
StorefrontFailureIsGeneric ==
  [][\A r \in Reqs :
       (/\ req'[r].kind \in {"dashboard", "refresh"}
        /\ req'[r].errFrom \in {"shop", "orders"} /\ req'[r].err.status # 401
        /\ req'[r] # req[r]) =>
          /\ req'[r].out \in {"error_500", "json_500", "stream_try_again"}
          /\ req'[r].stored = NoInsights
          /\ req'[r].html = "none"
          /\ UNCHANGED shopTokens
    ]_vars

\* C13: without a model key no handler ever makes a model call, and the tiles
\* generateTileInsights hands back are null; a GET /dashboard makes the shop
\* call only (no order-count, order-page, analytics or ad-platform call),
\* writes no skeleton and stores no insights entry, and what it serves is the
\* set-up card.
NoKeyNoGeneration ==
  \A r \in Reqs :
    LET rq == req[r]
    IN ~config.ANTHROPIC_API_KEY =>
         /\ rq.calls.model = 0
         /\ rq.stored # NoInsights => rq.kind = "refresh" /\ rq.stored.tiles = NullTiles
         /\ (rq.kind = "dashboard" /\ rq.pc # "idle") =>
               /\ rq.calls.count = 0 /\ rq.calls.pages = 0
               /\ rq.calls.ga = 0 /\ rq.calls.meta = 0
               /\ rq.calls.shop <= 1
               /\ ~rq.skeleton
               /\ rq.stored = NoInsights
               /\ rq.out \in {"none", "redirect_install", "page_setup",
                              "redirect_token_expired", "error_500"}
               /\ rq.out = "page_setup" => rq.html = "setup_card"

\* without a model key a GET /dashboard has served the set-up card although
\* an entry with null tiles (written by /dashboard/refresh) is stored
NoKeyNoGenerationWitness ==
  /\ ~config.ANTHROPIC_API_KEY
  /\ req[1].kind = "dashboard" /\ req[1].out = "page_setup"
  /\ req[1].calls = [NoCalls EXCEPT !.shop = 1]
  /\ insightsCache[req[1].shop] # NoInsights
  /\ insightsCache[req[1].shop].tiles = NullTiles

\* C14: the adSeverity of the tiles returned depends on the ad data only: it
\* is healthy without ad data or with spend = 0, else critical when
\* revenue / spend < 1.5, warning when 1.5 <= revenue / spend <= 2.5, healthy
\* above, whatever the model's text says.
AdSeverityByRoas ==
  call.fn = "generateTileInsights" /\ call.done =>
    LET m == call.metaAdsData
    IN call.tiles.adSeverity =
         (IF m.isNull \/ m.spend = 0 THEN "healthy"
          ELSE IF 10 * m.revenue < 15 * m.spend THEN "critical"
          ELSE IF 10 * m.revenue <= 25 * m.spend THEN "warning"
          ELSE "healthy")

\* revenue / spend = 1.5 exactly has given warning although the model's
\* ad-performance text carries the red marker
AdSeverityByRoasWitness ==
  /\ call.fn = "generateTileInsights" /\ call.done
  /\ call.metaAdsData = [isNull |-> FALSE, spend |-> 2, revenue |-> 3]
  /\ call.tiles.adSeverity = "warning"
  /\ call.tiles.adPerformance = <<"red", "w">>

\* C15: the healthSeverity of the tiles returned is critical when the
\* healthCheck text holds a red marker, else warning when it holds a yellow
\* marker, else healthy. (Violated: the code looks for the yellow marker first.)
HealthSeverityHighestWins ==
  call.fn = "generateTileInsights" /\ call.done =>
    LET has(marker) == \E i \in 1..Len(call.tiles.healthCheck) : call.tiles.healthCheck[i] = marker
    IN call.tiles.healthSeverity =
         (IF has("red") THEN "critical" ELSE IF has("yellow") THEN "warning" ELSE "healthy")

\* C16: generateTileInsights called without ad data returns tiles with an empty
\* adPerformance and adSeverity healthy, whatever the model's text.
\* (Violated: an ad-performance section in the text is parsed all the same.)
NoAdDataNoAdTile ==
  (call.fn = "generateTileInsights" /\ call.done /\ call.metaAdsData.isNull) =>
    /\ call.tiles.adPerformance = <<>>
    /\ call.tiles.adSeverity = "healthy"

\* C17: for a text made of sections of the five tiles, each written with a
\* body, in any order and with any of them missing, the tiles returned hold
\* the body of every section that is present, trimmed, and the empty string
\* for every section that is missing.
ParserPopulatesPresentSections ==
  (/\ call.fn = "generateTileInsights" /\ call.done
   /\ \A i \in DOMAIN call.order : call.order[i] \in TileNames
   /\ call.blank = {}) =>
     \A name \in TileNames :
       call.tiles[name] =
         (IF \E i \in DOMAIN call.order : call.order[i] = name
          THEN WrittenBody(name, call.blank) ELSE <<>>)

\* four of the five sections have been parsed, the last one asked for first,
\* and the tile of the missing one is empty
ParserPopulatesPresentSectionsWitness ==
  /\ call.fn = "generateTileInsights" /\ call.done
  /\ call.blank = {}
  /\ call.order = <<"adPerformance", "opportunity", "biggestIssue", "healthCheck">>
  /\ call.tiles.quickWin = <<>>
  /\ call.tiles.healthCheck = <<"healthCheck", "nl", "w">>
  /\ call.tiles.adPerformance = <<"adPerformance", "nl", "w">>

\* C18: for every segment of the text that is not blank and whose first line
\* assigns it to a tile, the tile holds everything after the segment's first
\* line, trimmed (nothing for a segment of one line); a tile no segment is
\* assigned to stays empty. (Violated: a segment of one line is stored whole.)
TileBodyIsRestOfSegment ==
  (call.fn = "generateTileInsights" /\ call.done) =>
    LET sections == SplitSections(call.text)
        assigned(i) == IF Trim(sections[i]) = <<>> THEN "none"
                       ELSE TileOf(FirstLine(Trim(sections[i])))
        rest(seg) == IF FirstNl(seg) = 0 THEN <<>>
                     ELSE Trim(SubSeq(seg, FirstNl(seg) + 1, Len(seg)))
    IN \A name \in TileNames :
         /\ \A i \in DOMAIN sections :
              assigned(i) = name => call.tiles[name] = rest(Trim(sections[i]))
         /\ (\A i \in DOMAIN sections : assigned(i) # name) => call.tiles[name] = <<>>


\* C19: the prompt buildTilePrompt returns has exactly 5 lines that open a
\* section and states the count 5 when its flag is true; with the flag false it
\* has exactly 4, states the count 4 and holds no line of the Ad Performance
\* instruction; and the flag generateTileInsights passes is true exactly when
\* the meta_ads of the data summary it passes is not null.
PromptAsksForCountedSections ==
  (call.fn \in {"buildTilePrompt", "generateTileInsights.userPrompt"} /\ call.done) =>
    LET n == IF call.hasMetaAds THEN 5 ELSE 4
    IN /\ Cardinality(SectionHeaders(call.prompt)) = n
       /\ StatedCounts(call.prompt) = {ToString(n)}
       /\ ~call.hasMetaAds =>
            \A i \in DOMAIN TILE_PROMPTS("AD_PERFORMANCE") :
              TILE_PROMPTS("AD_PERFORMANCE")[i] \notin Lines(call.prompt)
       /\ call.fn = "generateTileInsights.userPrompt" =>
            (call.hasMetaAds <=> ~call.dataSummary.meta_ads.isNull)

\* generateTileInsights has built a five-section prompt from ad data and from
\* products one of which has a title of header characters, with context notes
PromptAsksForCountedSectionsWitness ==
  /\ call.fn = "generateTileInsights.userPrompt"
  /\ call.done
  /\ ~call.metaAdsData.isNull
  /\ call.contextNotes > 0
  /\ \E i \in DOMAIN call.topProducts : call.topProducts[i] = "###"
  /\ Cardinality(SectionHeaders(call.prompt)) = 5


\* C20: after a cache miss the shopifyStats of getShopifyOrderData have
\* revenueIsEstimated false, sampleSize the number of orders on the pages,
\* revenue the exact sum of their total_price (as a number: the one nearest to
\* that sum), and avgOrderValue revenue / sampleSize, or 0 without orders.
OrderStatsAreExact ==
  (call.fn = "getShopifyOrderData" /\ call.done) =>
    LET orders == fetchAllPaidOrders(call.pages)
        stats == call.shopifyStats
    IN /\ stats.revenueIsEstimated = FALSE
       /\ stats.sampleSize = Len(orders)
       /\ stats.revenue = parseFloat(Total(orders))
       /\ stats.avgOrderValue =
            IF stats.sampleSize > 0 THEN Divide(stats.revenue, stats.sampleSize) ELSE Zero


\* C21: when fetchAllPaidOrders returns, it has asked for the pages from the
\* first to the one without a next link, each once and in order, and returns
\* their orders page after page; it stops at that page; and when a page request
\* fails it throws, having returned no list, and asks for no further page.
PaginationReturnsEveryPageOnce ==
  [][call.fn = "fetchAllPaidOrders" =>
       /\ call'.status = "returned" =>
            /\ call'.fetched = [i \in 1..Len(call.storefront) |-> i]
            /\ call'.returned = OrdersFrom(call.storefront, 1)
            /\ call.url = Len(call.storefront)
       /\ call'.status = "running" => call.url < Len(call.storefront)
       /\ call'.status = "thrown" => call'.returned = <<>> /\ call'.fetched = call.fetched
       /\ call.status # "running" => call' = call]_vars

\* fetchAllPaidOrders has returned the orders of two pages that both hold some
PaginationReturnsEveryPageOnceWitness ==
  /\ call.fn = "fetchAllPaidOrders"
  /\ call.status = "returned"
  /\ Len(call.storefront) >= 2
  /\ \A i \in DOMAIN call.storefront : call.storefront[i].orders # <<>>
  /\ Len(call.returned) >= 2


\* the notes of a list that are not of the check c
Others(notes, c) == SelectSeq(notes, LAMBDA note : note.check # c)

\* the place of a check in the fixed order
Place(c) == CHOOSE k \in 1..4 : <<"aov", "hero", "roas", "cpa">>[k] = c

\* C22: in the pipeline from the paid orders to the context notes, when heroes
\* are declared and products were sold, the hero check flags exactly the
\* declared heroes that are not among the five products of highest revenue: a
\* hero sold with fewer than five products ahead of it is never flagged, and a
\* hero that was not sold is.
HeroCheckFlagsAbsentFromTopFive ==
  (call.fn = "generateTileInsights.contextNotes" /\ call.done /\ Len(call.items) > 0) =>
    \A k \in DOMAIN call.businessContext.hero_products :
      LET hero == call.businessContext.hero_products[k]
          sold == {call.items[i].title : i \in DOMAIN call.items}
          inTopFive == \E title \in sold :
                         toLowerCase(title) = toLowerCase(hero) /\ Ahead(call.items, title) < 5
      IN hero \in Flagged(call.notes) <=> ~inTopFive


\* C23: validateBusinessContext called twice on the same context and summary
\* returns the same notes; the notes come in the order AOV, hero products,
\* ROAS, CPA with at most one per check; what one check reads does not change
\* the notes of the other checks; and with a declared band an AOV within
\* [low, high] gives no AOV note and an AOV below low gives exactly one.
ValidateIsPureAndOrdered ==
  (call.fn = "validateBusinessContext" /\ call.done) =>
    LET bc == call.businessContext
        ds == call.dataSummary
        notes == call.notes
        aovNotes == {i \in DOMAIN notes : notes[i].check = "aov"}
    IN /\ call.again = notes
       /\ \A i, j \in DOMAIN notes : i < j => Place(notes[i].check) < Place(notes[j].check)
       /\ \A aov \in 1..MaxAov :
            Others(validateBusinessContext(bc, [ds EXCEPT !.shopify.aov = aov]), "aov")
              = Others(notes, "aov")
       /\ \A heroes \in HeroLists :
            Others(validateBusinessContext([bc EXCEPT !.hero_products = heroes], ds), "hero")
              = Others(notes, "hero")
       /\ \A goal \in {0, 4} :
            Others(validateBusinessContext([bc EXCEPT !.roas_goal = goal], ds), "roas")
              = Others(notes, "roas")
       /\ \A ceiling \in {0, 1} :
            Others(validateBusinessContext([bc EXCEPT !.cac_ceiling = ceiling], ds), "cpa")
              = Others(notes, "cpa")
       /\ bc.aov_band.matches =>
            /\ (bc.aov_band.low <= ds.shopify.aov /\ ds.shopify.aov <= bc.aov_band.high)
                 => aovNotes = {}
            /\ ds.shopify.aov < bc.aov_band.low => Cardinality(aovNotes) = 1

\* validateBusinessContext has returned a note of each of the four checks for
\* an AOV below the band
ValidateIsPureAndOrderedWitness ==
  /\ call.fn = "validateBusinessContext"
  /\ call.done
  /\ call.businessContext.aov_band.matches
  /\ call.dataSummary.shopify.aov < call.businessContext.aov_band.low
  /\ Len(call.notes) = 4


\* C24: data that is there but all zero is kept apart from data that is not
\* there: the data summary's ga4 and meta_ads are null exactly when the
\* connector's result is null, the prompt says "Not connected" for a source
\* exactly when the summary has null for it, and generateTileInsights asks for
\* five tiles when the ad data is all zero.
ZeroedIsNotAbsent ==
  (call.fn \in {"buildTilePrompt", "generateTileInsights.userPrompt"} /\ call.done) =>
    /\ <<"GA4", "DATA:", "Not", "connected">> \in Lines(call.prompt)
         <=> call.dataSummary.ga4.isNull
    /\ <<"META", "ADS", "DATA:", "Not", "connected">> \in Lines(call.prompt)
         <=> call.dataSummary.meta_ads.isNull
    /\ call.fn = "generateTileInsights.userPrompt" =>
         /\ call.dataSummary.ga4.isNull <=> call.gaData.isNull
         /\ call.dataSummary.meta_ads.isNull <=> call.metaAdsData.isNull
         /\ ~call.metaAdsData.isNull =>
              /\ Cardinality(SectionHeaders(call.prompt)) = 5
              /\ StatedCounts(call.prompt) = {"5"}

\* generateTileInsights has built a prompt from analytics and ad data that are
\* there and all zero
ZeroedIsNotAbsentWitness ==
  /\ call.fn = "generateTileInsights.userPrompt"
  /\ call.done
  /\ call.gaData = [isNull |-> FALSE, sessions |-> 0]
  /\ call.metaAdsData = [isNull |-> FALSE, spend |-> 0, revenue |-> 0]
  /\ <<"###", "AD", "PERFORMANCE">> \in Lines(call.prompt)
  /\ <<"-", "Sessions:", "0">> \in Lines(call.prompt)


\* C25: in every reachable state a shop without a stored token has no
\* insights entry and no order-data entry.
NoCredentialNoEntries ==
  \A s \in Shops :
    shopTokens[s] = NoToken =>
      insightsCache[s] = NoInsights /\ orderDataCache[s] = NoOrderData


\* C26: whenever an insights entry of a shop is replaced by another, the order
\* data the new entry was generated from was fetched from the storefront no
\* earlier than the order data of the entry it replaces.
OrderDataOfInsightsNeverOlder ==
  [][\A s \in Shops :
       (insightsCache[s] # NoInsights /\ insightsCache'[s] # NoInsights)
         => insightsCache'[s].shopifyStats.cachedAt >= insightsCache[s].shopifyStats.cachedAt]_vars


NoCredentialNoEffect ==
  [][\A r \in Slots :
       ( /\ Live[r].pc = "idle"
         /\ req'[r].kind \in {"dashboard", "refresh", "settings"}
         /\ shopTokens[req'[r].shop] = NoToken )
       => /\ UNCHANGED <<shopTokens, insightsCache, orderDataCache>>
          /\ req'[r].calls = NoCalls
          /\ req'[r].shopSt = "none" /\ req'[r].ordSt = "none"
          /\ req'[r].pc = "done"
          /\ req'[r].out \in {"redirect_install", "json_401_not_authenticated"}]_vars

\* a forced GET /dashboard was turned away while the shop, with no credential,
\* had order data in the cache
NoCredentialNoEffectWitness ==
  \E r \in Reqs :
    /\ req[r].kind = "dashboard" /\ req[r].force
    /\ req[r].out = "redirect_install"
    /\ shopTokens[req[r].shop] = NoToken
    /\ orderDataCache[req[r].shop] # NoOrderData


\* C29: GET /auth/callback stores a credential only when its token exchange
\* has succeeded, which it reaches only after the state and HMAC checks, and
\* only when the session nonce its state was compared with had been issued by
\* a GET /auth; no other step of the callback changes the token store.
CredentialOnlyAfterIssuedNonce ==
  [][/\ \A s \in Shops :
          (shopTokens'[s] # shopTokens[s] /\ shopTokens'[s] # NoToken)
            => \E r \in Reqs : /\ Live[r].kind = "callback" /\ Live[r].pc = "exchange"
                               /\ Live[r].shop = s
                               /\ req'[r].out = "redirect_admin"
                               /\ Live[r].nonce \in Nonces
     /\ \A r \in Reqs :
          (req'[r].kind = "callback" /\ req'[r] # Live[r] /\ req'[r].out # "redirect_admin")
            => shopTokens' = shopTokens]_vars


\* C30: every insights entry that GET /dashboard serves from the cache was
\* generated from order data fetched from the storefront no more than 24
\* hours before the entry's generatedAt.
ServedInsightsFromFreshOrders ==
  \A r \in Reqs :
    (req[r].kind = "dashboard" /\ req[r].look = "hit")
      => req[r].insightsData.generatedAt - req[r].insightsData.shopifyStats.cachedAt
           <= ORDER_DATA_TTL

====
